---- MODULE Spec2Model ----
(***************************************************************************)
(* Almoxarife: plugin manager for the Kakoune editor.                      *)
(*                                                                         *)
(* The module models                                                       *)
(*   - the flattening of the configuration tree (setup.rs, PluginTree),    *)
(*   - Plugin::update, one step per subprocess or filesystem call,         *)
(*   - manage_plugins (main.rs): the spawned tasks, the channel and the    *)
(*     consumer loop that writes almoxarife.kak.                           *)
(*                                                                         *)
(* Strings are kept symbolic.  A path is a pair <<directory, name>>, a     *)
(* location is a pair <<prefix, rest>> (and so is the path made from it),  *)
(* a fragment is the tuple of the pieces format! concatenates.             *)
(***************************************************************************)
EXTENDS Integers, Sequences, FiniteSets, TLC

(* ------------------------------ bounds -------------------------------- *)

\* Nodes of the configuration tree drawn by InitFlatten.
MaxNodes == 3

\* Revisions a repository and its origin go through.
MaxRev == 2

\* Calls of update() on one Plugin value.
MaxRuns == 2

\* Threads manage_plugins spawns: plugins to update and directories to remove.
MaxThreads == 2

(* --------------------------- small helpers ---------------------------- *)

None == <<>>

Some(x) == <<x>>

Range(s) == {s[i] : i \in 1..Len(s)}

RECURSIVE SetToSeq(_)
\* The elements of a set of integers, in increasing order.
SetToSeq(S) ==
    IF S = {} THEN <<>>
    ELSE LET m == CHOOSE x \in S : \A y \in S : x <= y
         IN  <<m>> \o SetToSeq(S \ {m})

(* ------------------------- configuration tree ------------------------- *)

\* Plugin names used as keys of the YAML mappings.
Names == {"luar", "peneira"}

\* Location strings, as <<prefix, rest>>.
Locations ==
    { <<"https://", "host/repo">>,
      <<"git://", "host/repo">>,
      <<"git@", "host:repo">>,
      <<"/", "home/user/repo">> }

\* The user's configuration text of a node (PluginTree.config).
ConfigTexts == {"", "set-option global x y"}

\* The shapes of a tree of n nodes: parent[i] = 0 for a top-level entry.
Shapes(n) == {p \in [1..n -> 0..(n - 1)] : \A i \in 1..n : p[i] < i}

\* The keys of one mapping are distinct.
Namings(p) ==
    { nm \in [DOMAIN p -> Names] :
        \A i, j \in DOMAIN p : (i # j /\ p[i] = p[j]) => nm[i] # nm[j] }

\* Only the first node of a drawn tree may carry configuration text.
Configs(n) == {c \in [1..n -> ConfigTexts] : \A i \in 2..n : c[i] = ""}

\* A tree of PluginTree nodes 1..n with locations among locs.  Node numbers
\* stand for the iteration order of the HashMaps: a HashMap iterates in an
\* arbitrary order, and every order of every tree is the numbering of some
\* tree drawn here (number the nodes in the order of the walk).
IsTreeOver(t, n, locs) ==
    \E p \in Shapes(n) : \E nm \in Namings(p) :
    \E l \in [1..n -> locs] : \E c \in Configs(n) :
    \E d \in [1..n -> BOOLEAN] :
        t = [ parent |-> p, name |-> nm, location |-> l, config |-> c,
              disabled |-> d ]

IsTree(t, n) == IsTreeOver(t, n, Locations)

Nodes(t) == DOMAIN t.parent

\* PluginTree.children of a node (0: the top-level mapping of Config).
Children(t, i) == {j \in Nodes(t) : t.parent[j] = i}

(* ------------------------------- paths -------------------------------- *)

\* Setup.almoxarife_data_dir and Setup.autoload_plugins_dir.
DataDir == "data"

AutoloadPluginsDir == "autoload"

\* PathBuf::join of a directory and a name.
Join(dir, name) == <<dir, name>>

\* PathBuf::from of a location string: the same characters.
PathFrom(location) == location

(* ------------------------------ Plugin -------------------------------- *)

StartsWith(location, prefix) == location[1] = prefix

is_local(location) ==
    /\ ~StartsWith(location, "https://")
    /\ ~StartsWith(location, "http://")
    /\ ~StartsWith(location, "git@")

\* A Plugin::new that never records children.
PluginNewChildless(t, i, name, parent) ==
    LET local == is_local(t.location[i])
    IN  [ name            |-> name,
          parent          |-> parent,
          has_children    |-> FALSE,
          location        |-> t.location[i],
          is_local        |-> local,
          config          |-> t.config[i],
          repository_path |-> IF local THEN PathFrom(t.location[i])
                                       ELSE Join(DataDir, name),
          link_path       |-> Join(AutoloadPluginsDir, name),
          node            |-> i ]

\* A Plugin::new that looks only at the children that are not disabled.
PluginNewEnabledChildren(t, i, name, parent) ==
    LET local == is_local(t.location[i])
    IN  [ name            |-> name,
          parent          |-> parent,
          has_children    |-> \E j \in Children(t, i) : ~t.disabled[j],
          location        |-> t.location[i],
          is_local        |-> local,
          config          |-> t.config[i],
          repository_path |-> IF local THEN PathFrom(t.location[i])
                                       ELSE Join(DataDir, name),
          link_path       |-> Join(AutoloadPluginsDir, name),
          node            |-> i ]

\* Plugin::new.  The field node is not in the struct: it records which node
\* of the tree the value was built from.
PluginNew(t, i, name, parent) ==
    LET local == is_local(t.location[i])
    IN  [ name            |-> name,
          parent          |-> parent,
          has_children    |-> Children(t, i) # {},
          location        |-> t.location[i],
          is_local        |-> local,
          config          |-> t.config[i],
          repository_path |-> IF local THEN PathFrom(t.location[i])
                                       ELSE Join(DataDir, name),
          link_path       |-> Join(AutoloadPluginsDir, name),
          node            |-> i ]

RECURSIVE TreePlugins(_, _, _)
RECURSIVE FlatMapPlugins(_, _, _)

\* children.iter().flat_map(|child| child.plugins(child_name, parent))
FlatMapPlugins(t, kids, parent) ==
    IF kids = <<>> THEN <<>>
    ELSE TreePlugins(t, Head(kids), parent) \o FlatMapPlugins(t, Tail(kids), parent)

\* A walk that skips a disabled node but still descends into its children.
TreePluginsDescending(t, i, parent) ==
    (IF t.disabled[i] THEN <<>> ELSE <<PluginNew(t, i, t.name[i], parent)>>)
        \o FlatMapPlugins(t, SetToSeq(Children(t, i)), Some(t.name[i]))

\* PluginTree::plugins
TreePlugins(t, i, parent) ==
    IF t.disabled[i] THEN <<>>
    ELSE <<PluginNew(t, i, t.name[i], parent)>>
           \o FlatMapPlugins(t, SetToSeq(Children(t, i)), Some(t.name[i]))

\* Config::active_plugins
active_plugins(t) == FlatMapPlugins(t, SetToSeq(Children(t, 0)), None)

RECURSIVE ListDisabled(_, _, _)

\* The nodes to report as disabled among kids and below them, in the order of
\* the walk; inherited tells that an ancestor of kids is disabled.
ListDisabled(t, kids, inherited) ==
    IF kids = <<>> THEN <<>>
    ELSE LET i == Head(kids)
             d == inherited \/ t.disabled[i]
         IN  (IF d THEN <<i>> ELSE <<>>)
                 \o ListDisabled(t, SetToSeq(Children(t, i)), d)
                 \o ListDisabled(t, Tail(kids), inherited)

\* A list of the nodes whose own disabled flag is true.
disabled_pluginsOwnFlag(t) ==
    LET own == SetToSeq({i \in Nodes(t) : t.disabled[i]})
    IN  [k \in 1..Len(own) |-> [name |-> t.name[own[k]], node |-> own[k]]]

\* Config::disabled_plugins: the names main() prints as disabled.  The field
\* node is not in the Vec<String>: it records the node the name is of.
disabled_plugins(t) ==
    LET listed == ListDisabled(t, SetToSeq(Children(t, 0)), FALSE)
    IN  [k \in 1..Len(listed) |-> [name |-> t.name[listed[k]], node |-> listed[k]]]

\* A config that renders a plugin with children and no parent as one
\* without children.
configWithoutPlaceholder(p) ==
    IF p.parent = None THEN
        << "try %[ require-module ", p.name, " ]\n", p.config, "\n" >>
    ELSE IF ~p.has_children THEN
        << "hook -once global ModuleLoaded ", p.parent[1],
           " %[\n    try %[ require-module ", p.name, " ]\n    ", p.config,
           "\n]\n" >>
    ELSE
        << "hook -once global ModuleLoaded ", p.parent[1],
           " %[\n    try %[ require-module ", p.name,
           " ] catch %[\n        provide-module ", p.name,
           " ''\n        require-module ", p.name, "\n    ]\n    ", p.config,
           "\n]\n" >>

\* Plugin::config: the pieces format! concatenates.
config(p) ==
    IF p.parent = None /\ ~p.has_children THEN
        << "try %[ require-module ", p.name, " ]\n", p.config, "\n" >>
    ELSE IF p.parent = None /\ p.has_children THEN
        << "try %[ require-module ", p.name, " ] catch %[\n    provide-module ",
           p.name, " ''\n    require-module ", p.name, "\n]\n", p.config, "\n" >>
    ELSE IF ~p.has_children THEN
        << "hook -once global ModuleLoaded ", p.parent[1],
           " %[\n    try %[ require-module ", p.name, " ]\n    ", p.config,
           "\n]\n" >>
    ELSE
        << "hook -once global ModuleLoaded ", p.parent[1],
           " %[\n    try %[ require-module ", p.name,
           " ] catch %[\n        provide-module ", p.name,
           " ''\n        require-module ", p.name, "\n    ]\n    ", p.config,
           "\n]\n" >>

(* ------------------------- Status, PluginError ------------------------ *)

Installed(name, cfg) == [kind |-> "Installed", name |-> name, config |-> cfg]

Unchanged(name, cfg) == [kind |-> "Unchanged", name |-> name, config |-> cfg]

Updated(name, log, cfg) ==
    [kind |-> "Updated", name |-> name, log |-> log, config |-> cfg]

Local(name, cfg) == [kind |-> "Local", name |-> name, config |-> cfg]

Deleted(name) == [kind |-> "Deleted", name |-> name]

\* A PluginError that keeps the message where the name belongs.
PluginErrorNamingMessage(kind, name, message) ==
    [kind |-> kind, name |-> message, message |-> message]

\* PluginError::Clone, Pull, Link and Delete.
PluginError(kind, name, message) ==
    [kind |-> kind, name |-> name, message |-> message]

Ok(status) == [ok |-> TRUE, value |-> status]

Err(error) == [ok |-> FALSE, value |-> error]

\* No result yet.
Pending == [ok |-> FALSE, value |-> "pending"]

(* ------------------------- the git subprocess ------------------------- *)

\* Revisions are 1..MaxRev; NoRevision is the empty string.
NoRevision == 0

\* How a spawned git ends: Command::output fails (spawn_error), the process
\* exits with a code, or a signal ends it and ExitStatus::code() is None.
ExitCodes == {0, 1}

Exits == {[kind |-> "exit", code |-> c] : c \in ExitCodes}

Terminations == Exits \cup {[kind |-> "signal"], [kind |-> "spawn_error"]}

Exited(o, c) == o.kind = "exit" /\ o.code = c

\* The message built from a failed exit: the code and the captured stderr.
ExitMessage(code, command) ==
    <<"git exited with status ", code, ": ", <<"stderr of git ", command>> >>

\* io::Error::to_string() of a failed spawn.
SpawnMessage == <<"No such file or directory (os error 2)">>

\* The output of git log old..new --oneline --no-decorate --reverse.
LogOutput(old, new) == <<"log", old, new>>

(* ------------------------------- state -------------------------------- *)

VARIABLES
    tree,        \* Config.plugins, the parsed configuration
    flat,        \* the Vec<Plugin> returned by active_plugins
    mode,        \* which operation of the program is running
    removed,     \* the Vec<PathBuf> of directories to remove
    dirs,        \* the directories that exist (repositories, local plugins)
    links,       \* the symlinks of the autoload directory: <<link, target>>
    autoload,    \* whether Setup.autoload_plugins_dir exists
    head,        \* HEAD of the repository at each path of the data directory
    upstream,    \* the revision at the origin of each such repository
    task,        \* the threads: position in update(), locals, result
    history,     \* the outcome of the last update() call that returned; in
                 \* manage_plugins, the threads in the order they sent
    chan,        \* the mpsc channel: results sent and not yet received
    kak,         \* the writes made to almoxarife.kak, in order
    errors,      \* manage_plugins: let mut errors
    changes,     \* manage_plugins: let mut changes
    printed,     \* the status lines printed by the consumer, in order
    received,    \* the threads whose result recv() returned, in order
    mainpc,      \* position of the main thread in manage_plugins
    spawned,     \* number of threads spawned so far
    ret          \* the value manage_plugins returned

inputVars == <<tree, flat, removed>>

fsVars == <<dirs, links, autoload, head, upstream>>

consumerVars ==
    <<chan, kak, errors, changes, printed, received, mainpc, spawned, ret>>

vars == <<tree, flat, mode, removed, dirs, links, autoload, head, upstream,
          task, history, chan, kak, errors, changes, printed, received,
          mainpc, spawned, ret>>

\* The paths a repository of the data directory can have.
RepoPaths == {Join(DataDir, n) : n \in Names}

\* A thread before it runs, and a Plugin before update() is called.
NewTask(pc) ==
    [ pc           |-> pc,
      old_revision |-> None,
      new_revision |-> None,
      status       |-> None,
      result       |-> Pending,
      calls        |-> <<>>,
      clean        |-> TRUE,
      failed       |-> FALSE ]

Tasks == DOMAIN task

\* Threads 1..Len(flat) run update(), the others remove_dir.
IsPluginTask(t) == t <= Len(flat)

LinkExists(path) == \E l \in links : l[1] = path

(* --------------------------- Plugin::update --------------------------- *)

\* A filesystem call of the thread itself: no process ends.
NoProcess == [kind |-> "none"]

\* Command::output returned an error, or the process exited with a code
\* other than 0.
Failure(o) == o.kind = "spawn_error" \/ (o.kind = "exit" /\ o.code # 0)

\* A step of thread t: the calls made so far grow by one, the fields change.
\* o is how the git process of the call ended; clean records that every git
\* process of the thread so far exited with code 0, failed that one of them
\* could not be spawned or exited with another code.
Step(t, call, o, pc, fields) ==
    task' = [task EXCEPT ![t] =
                [f \in DOMAIN @ |->
                    IF f = "pc" THEN pc
                    ELSE IF f = "calls" THEN Append(@.calls, call)
                    ELSE IF f = "clean" THEN @.clean /\ (o = NoProcess \/ Exited(o, 0))
                    ELSE IF f = "failed" THEN @.failed \/ Failure(o)
                    ELSE IF f \in DOMAIN fields THEN fields[f]
                    ELSE @[f]]]

\* update() returns Err(error): the ? operator or the explicit return.
Fail(t, call, o, error) ==
    Step(t, call, o, "finished", [result |-> Err(error)])

\* An update() that clones a local plugin whose path is missing.
StartCloningLocal(t) ==
    /\ IsPluginTask(t)
    /\ task[t].pc = "start"
    /\ LET p      == flat[t]
           exists == p.repository_path \in dirs
       IN  IF p.is_local /\ exists THEN
               Step(t, "metadata", NoProcess, "symlink",
                    [status |-> Local(p.name, config(p))])
           ELSE IF p.is_local THEN
               Step(t, "metadata", NoProcess, "clone", <<>>)
           ELSE IF exists THEN
               Step(t, "metadata", NoProcess, "rev_old", <<>>)
           ELSE
               Step(t, "metadata", NoProcess, "clone", <<>>)
    /\ UNCHANGED <<inputVars, mode, fsVars, history, consumerVars>>

\* Plugin::update up to the match on (is_local, repository_path_exists()).
Start(t) ==
    /\ IsPluginTask(t)
    /\ task[t].pc = "start"
    /\ LET p      == flat[t]
           exists == p.repository_path \in dirs
       IN  IF p.is_local /\ exists THEN
               Step(t, "metadata", NoProcess, "symlink",
                    [status |-> Local(p.name, config(p))])
           ELSE IF p.is_local THEN
               Fail(t, "metadata", NoProcess,
                    PluginError("Link", p.name,
                                <<"the path ", p.location, " is empty">>))
           ELSE IF exists THEN
               Step(t, "metadata", NoProcess, "rev_old", <<>>)
           ELSE
               Step(t, "metadata", NoProcess, "clone", <<>>)
    /\ UNCHANGED <<inputVars, mode, fsVars, history, consumerVars>>

\* A clone that goes on when git clone exits with a code other than 0.
CloneRepoBestEffort(t, terms) ==
    /\ task[t].pc = "clone"
    /\ LET p    == flat[t]
           repo == p.repository_path
           made == /\ dirs' = dirs \cup {repo}
                   /\ head' = [head EXCEPT ![repo] = upstream[repo]]
       IN  \E o \in terms :
             \/ /\ o.kind = "spawn_error"
                /\ Fail(t, "clone", o, PluginError("Clone", p.name, SpawnMessage))
                /\ UNCHANGED <<dirs, head>>
             \/ /\ o.kind = "exit" /\ o.code # 0
                /\ Step(t, "clone", o, "symlink",
                        [status |-> Installed(p.name, config(p))])
                /\ UNCHANGED <<dirs, head>>
             \/ \* git clone refuses a directory that exists and is not empty
                /\ Exited(o, 0) /\ repo \notin dirs
                /\ Step(t, "clone", o, "symlink",
                        [status |-> Installed(p.name, config(p))])
                /\ made
             \/ \* a signal ended git: None | Some(0) => Ok(())
                /\ o.kind = "signal"
                /\ Step(t, "clone", o, "symlink",
                        [status |-> Installed(p.name, config(p))])
                /\ \/ UNCHANGED <<dirs, head>>
                   \/ repo \notin dirs /\ made
    /\ UNCHANGED <<inputVars, mode, links, autoload, upstream, history,
                   consumerVars>>

\* Plugin::clone_repo, and the Installed arm of update().
CloneRepo(t, terms) ==
    /\ task[t].pc = "clone"
    /\ LET p    == flat[t]
           repo == p.repository_path
           made == /\ dirs' = dirs \cup {repo}
                   /\ head' = [head EXCEPT ![repo] = upstream[repo]]
       IN  \E o \in terms :
             \/ /\ o.kind = "spawn_error"
                /\ Fail(t, "clone", o, PluginError("Clone", p.name, SpawnMessage))
                /\ UNCHANGED <<dirs, head>>
             \/ /\ o.kind = "exit" /\ o.code # 0
                /\ Fail(t, "clone", o,
                        PluginError("Clone", p.name, ExitMessage(o.code, "clone")))
                /\ UNCHANGED <<dirs, head>>
             \/ \* git clone refuses a directory that exists and is not empty
                /\ Exited(o, 0) /\ repo \notin dirs
                /\ Step(t, "clone", o, "symlink",
                        [status |-> Installed(p.name, config(p))])
                /\ made
             \/ \* a signal ended git: None | Some(0) => Ok(())
                /\ o.kind = "signal"
                /\ Step(t, "clone", o, "symlink",
                        [status |-> Installed(p.name, config(p))])
                /\ \/ UNCHANGED <<dirs, head>>
                   \/ repo \notin dirs /\ made
    /\ UNCHANGED <<inputVars, mode, links, autoload, upstream, history,
                   consumerVars>>

\* String::pop: the string without its last character.
Pop(str) == IF str = <<>> THEN <<>> ELSE SubSeq(str, 1, Len(str) - 1)

\* What git rev-parse HEAD prints in a repository.
RevParseOutput(repo) == <<head[repo], "\n">>

\* Plugin::current_revision, given how git ended and what it printed.
current_revision(p, o, stdout) ==
    IF o.kind = "spawn_error" THEN
        Err(PluginError("Pull", p.name, SpawnMessage))
    ELSE IF o.kind = "exit" /\ o.code # 0 THEN
        Err(PluginError("Pull", p.name, ExitMessage(o.code, "rev-parse")))
    ELSE Ok(Pop(stdout))

\* What a git that ran in repo may have printed: all of it when it exited
\* with 0, all or nothing when a signal ended it, nothing otherwise.
Printed(o, full) ==
    IF Exited(o, 0) THEN {full}
    ELSE IF o.kind = "signal" THEN {full, <<>>}
    ELSE {<<>>}

\* A pull that goes on to git pull when the first rev-parse failed.
RevOldUnchecked(t, terms) ==
    /\ task[t].pc = "rev_old"
    /\ LET p == flat[t]
       IN  \E o \in terms :
           \E stdout \in Printed(o, RevParseOutput(p.repository_path)) :
             LET r == current_revision(p, o, stdout)
             IN  Step(t, "rev-parse", o, "pull",
                      [old_revision |-> IF r.ok THEN r.value ELSE <<>>])
    /\ UNCHANGED <<inputVars, mode, fsVars, history, consumerVars>>

\* Plugin::pull, first statement: let old_revision = self.current_revision()?
RevOld(t, terms) ==
    /\ task[t].pc = "rev_old"
    /\ LET p == flat[t]
       IN  \E o \in terms :
           \E stdout \in Printed(o, RevParseOutput(p.repository_path)) :
             LET r == current_revision(p, o, stdout)
             IN  IF r.ok THEN Step(t, "rev-parse", o, "pull",
                                   [old_revision |-> r.value])
                 ELSE Fail(t, "rev-parse", o, r.value)
    /\ UNCHANGED <<inputVars, mode, fsVars, history, consumerVars>>

\* A pull that goes on when git pull exits with a code other than 0.
PullBestEffort(t, terms) ==
    /\ task[t].pc = "pull"
    /\ LET p      == flat[t]
           repo   == p.repository_path
           merged == head' = [head EXCEPT ![repo] = upstream[repo]]
       IN  \E o \in terms :
             \/ /\ o.kind = "spawn_error"
                /\ Fail(t, "pull", o, PluginError("Pull", p.name, SpawnMessage))
                /\ UNCHANGED head
             \/ /\ o.kind = "exit" /\ o.code # 0
                /\ Step(t, "pull", o, "rev_new", <<>>)
                /\ UNCHANGED head
             \/ /\ Exited(o, 0)
                /\ Step(t, "pull", o, "rev_new", <<>>)
                /\ merged
             \/ \* if let Some(code) = output.status.code(): a signal passes
                /\ o.kind = "signal"
                /\ Step(t, "pull", o, "rev_new", <<>>)
                /\ (merged \/ UNCHANGED head)
    /\ UNCHANGED <<inputVars, mode, dirs, links, autoload, upstream, history,
                   consumerVars>>

\* Plugin::pull: the git pull subprocess.
Pull(t, terms) ==
    /\ task[t].pc = "pull"
    /\ LET p      == flat[t]
           repo   == p.repository_path
           merged == head' = [head EXCEPT ![repo] = upstream[repo]]
       IN  \E o \in terms :
             \/ /\ o.kind = "spawn_error"
                /\ Fail(t, "pull", o, PluginError("Pull", p.name, SpawnMessage))
                /\ UNCHANGED head
             \/ /\ o.kind = "exit" /\ o.code # 0
                /\ Fail(t, "pull", o,
                        PluginError("Pull", p.name, ExitMessage(o.code, "pull")))
                /\ UNCHANGED head
             \/ /\ Exited(o, 0)
                /\ Step(t, "pull", o, "rev_new", <<>>)
                /\ merged
             \/ \* if let Some(code) = output.status.code(): a signal passes
                /\ o.kind = "signal"
                /\ Step(t, "pull", o, "rev_new", <<>>)
                /\ (merged \/ UNCHANGED head)
    /\ UNCHANGED <<inputVars, mode, dirs, links, autoload, upstream, history,
                   consumerVars>>

\* A pull that asks for the log without comparing the two revisions.
RevNewAlwaysLog(t, terms) ==
    /\ task[t].pc = "rev_new"
    /\ LET p == flat[t]
       IN  \E o \in terms :
           \E stdout \in Printed(o, RevParseOutput(p.repository_path)) :
             LET r == current_revision(p, o, stdout)
             IN  IF ~r.ok THEN Fail(t, "rev-parse", o, r.value)
                 ELSE Step(t, "rev-parse", o, "log", [new_revision |-> r.value])
    /\ UNCHANGED <<inputVars, mode, fsVars, history, consumerVars>>

\* Plugin::pull: let new_revision = self.current_revision()? and the
\* comparison of the two revisions; the Unchanged arm of update().
RevNew(t, terms) ==
    /\ task[t].pc = "rev_new"
    /\ LET p == flat[t]
       IN  \E o \in terms :
           \E stdout \in Printed(o, RevParseOutput(p.repository_path)) :
             LET r == current_revision(p, o, stdout)
             IN  IF ~r.ok THEN Fail(t, "rev-parse", o, r.value)
                 ELSE IF task[t].old_revision = r.value THEN
                     Step(t, "rev-parse", o, "symlink",
                          [new_revision |-> r.value,
                           status |-> Unchanged(p.name, config(p))])
                 ELSE Step(t, "rev-parse", o, "log", [new_revision |-> r.value])
    /\ UNCHANGED <<inputVars, mode, fsVars, history, consumerVars>>

\* A log asked for the range new..old.
LogReversedRange(t, terms) ==
    /\ task[t].pc = "log"
    /\ LET p    == flat[t]
           full == LogOutput(task[t].new_revision, task[t].old_revision)
       IN  \E o \in terms : \E stdout \in Printed(o, full) :
             IF o.kind = "spawn_error" THEN
                 Fail(t, "log", o, PluginError("Pull", p.name, SpawnMessage))
             ELSE IF o.kind = "exit" /\ o.code # 0 THEN
                 Fail(t, "log", o,
                      PluginError("Pull", p.name, ExitMessage(o.code, "log")))
             ELSE Step(t, "log", o, "symlink",
                       [status |-> Updated(p.name, stdout, config(p))])
    /\ UNCHANGED <<inputVars, mode, fsVars, history, consumerVars>>

\* Plugin::log, and the Updated arm of update().
Log(t, terms) ==
    /\ task[t].pc = "log"
    /\ LET p    == flat[t]
           full == LogOutput(task[t].old_revision, task[t].new_revision)
       IN  \E o \in terms : \E stdout \in Printed(o, full) :
             IF o.kind = "spawn_error" THEN
                 Fail(t, "log", o, PluginError("Pull", p.name, SpawnMessage))
             ELSE IF o.kind = "exit" /\ o.code # 0 THEN
                 Fail(t, "log", o,
                      PluginError("Pull", p.name, ExitMessage(o.code, "log")))
             ELSE Step(t, "log", o, "symlink",
                       [status |-> Updated(p.name, stdout, config(p))])
    /\ UNCHANGED <<inputVars, mode, fsVars, history, consumerVars>>

\* A symlink step that returns the status whether or not the link was made.
SymlinkUnchecked(t) ==
    /\ task[t].pc = "symlink"
    /\ Step(t, "symlink", NoProcess, "finished", [result |-> Ok(task[t].status)])
    /\ links' = IF autoload /\ ~LinkExists(flat[t].link_path)
                THEN links \cup {<<flat[t].link_path, flat[t].repository_path>>}
                ELSE links
    /\ UNCHANGED <<inputVars, mode, dirs, autoload, head, upstream, history,
                   consumerVars>>

\* Plugin::symlink and the end of update(): unix::fs::symlink fails when
\* link_path exists or its directory does not.
Symlink(t) ==
    /\ task[t].pc = "symlink"
    /\ LET p == flat[t]
       IN  IF ~autoload THEN
               /\ Fail(t, "symlink", NoProcess,
                       PluginError("Link", p.name,
                           <<"No such file or directory (os error 2)", ": ",
                             p.link_path>>))
               /\ UNCHANGED links
           ELSE IF LinkExists(p.link_path) THEN
               /\ Fail(t, "symlink", NoProcess,
                       PluginError("Link", p.name,
                           <<"File exists (os error 17)", ": ", p.link_path>>))
               /\ UNCHANGED links
           ELSE
               /\ Step(t, "symlink", NoProcess, "finished",
                       [result |-> Ok(task[t].status)])
               /\ links' = links \cup {<<p.link_path, p.repository_path>>}
    /\ UNCHANGED <<inputVars, mode, dirs, autoload, head, upstream, history,
                   consumerVars>>

(* ------------------- flattening of the configuration ------------------ *)

\* The state outside the flattening.
Idle ==
    /\ removed = <<>>
    /\ dirs = {}
    /\ links = {}
    /\ autoload = TRUE
    /\ head = [r \in RepoPaths |-> NoRevision]
    /\ upstream = [r \in RepoPaths |-> 1]
    /\ task = <<>>
    /\ history = <<>>
    /\ chan = <<>>
    /\ kak = <<>>
    /\ errors = <<>>
    /\ changes = <<>>
    /\ printed = <<>>
    /\ received = <<>>
    /\ mainpc = "idle"
    /\ spawned = 0
    /\ ret = None

\* The parsed configuration: a tree whose first entry has any location and
\* whose other entries have a location with or without the git@ prefix.
InitFlatten ==
    /\ \E n \in 1..MaxNodes :
         /\ IsTree(tree, n)
         /\ \A i \in 2..n :
              tree.location[i] \in {<<"git@", "host:repo">>, <<"/", "home/user/repo">>}
    /\ flat = <<>>
    /\ mode = "parsed"
    /\ Idle

\* The line manage_plugins prints for a disabled plugin.
DisabledLine(d) == [name |-> d.name, label |-> "disabled", node |-> d.node]

\* main(): config.disabled_plugins(), whose names manage_plugins prints, and
\* config.active_plugins().
Flatten ==
    /\ mode = "parsed"
    /\ LET disabled == disabled_plugins(tree)
       IN  printed' = [k \in 1..Len(disabled) |-> DisabledLine(disabled[k])]
    /\ flat' = active_plugins(tree)
    /\ mode' = "flattened"
    /\ UNCHANGED <<tree, removed, fsVars, task, history, chan, kak, errors,
                   changes, received, mainpc, spawned, ret>>

\* let config = self.config(), the first statement of each plugin's
\* update(): the fragments of the flattened plugins, in their order.
Render ==
    /\ mode = "flattened"
    /\ kak' = [k \in 1..Len(flat) |-> config(flat[k])]
    /\ mode' = "rendered"
    /\ UNCHANGED <<inputVars, fsVars, task, history, chan, errors, changes,
                   printed, received, mainpc, spawned, ret>>

NextFlatten == Flatten \/ Render

SpecFlatten == InitFlatten /\ [][NextFlatten]_vars

\* Ancestors of a node, the node included.
RECURSIVE AncestorsOrSelf(_, _)
AncestorsOrSelf(t, i) ==
    IF i = 0 THEN {} ELSE {i} \cup AncestorsOrSelf(t, t.parent[i])

(* --------------------------- manage_plugins --------------------------- *)

\* The bytes Kak::write_prelude and Kak::close write.
Prelude == <<"hook global KakBegin .* %", "basket", "\n", "add-highlighter ...">>

Terminator == <<"basket">>

\* The directory of the k-th removed plugin.
RemovedNames == <<"old-1", "old-2", "old-3">>

RemovedPath(k) == Join(DataDir, RemovedNames[k])

\* The plugin or the directory thread t was spawned for.
RemovedOf(t) == removed[t - Len(flat)]

AllDone == \A t \in Tasks : task[t].pc = "done"

\* main() up to the call of manage_plugins: the configuration is parsed,
\* create_dirs has emptied the autoload directory, almoxarife.kak holds the
\* prelude.  The first plugins of the list may have repositories of earlier
\* runs, at revision 1 (a local plugin's directory then exists); every
\* origin is at revision 1 or at MaxRev.  The trees drawn have luar as their
\* first key, configuration text there, at most one disabled node and no
\* entry below a child of luar; the git processes of the threads end by an
\* exit (SpecUpdate draws every termination).
InitManage ==
    /\ \E n \in 1..MaxThreads :
         /\ IsTreeOver(tree, n, {<<"https://", "host/repo">>, <<"/", "home/user/repo">>})
         /\ tree.name[1] = "luar"
         /\ tree.config[1] # ""
         /\ Cardinality({i \in 1..n : tree.disabled[i]}) <= 1
         /\ \A i \in 1..n : tree.parent[i] <= 1
    /\ flat = active_plugins(tree)
    /\ mode = "manage_plugins"
    /\ \E m \in 0..(MaxThreads - Len(flat)) : removed = [k \in 1..m |-> RemovedPath(k)]
    /\ \E k \in 0..Len(flat) :
         LET present == {flat[i].repository_path : i \in 1..k}
         IN  /\ dirs = present \cup Range(removed)
             /\ head = [r \in RepoPaths |-> IF r \in present THEN 1 ELSE NoRevision]
    /\ \E u \in {1, MaxRev} : upstream = [r \in RepoPaths |-> u]
    /\ links = {}
    /\ autoload = TRUE
    /\ task = [t \in 1..(Len(flat) + Len(removed)) |-> NewTask("unspawned")]
    /\ history = <<>>
    /\ chan = <<>>
    /\ kak = <<Prelude>>
    /\ errors = <<>>
    /\ changes = <<>>
    /\ printed = <<>>
    /\ received = <<>>
    /\ mainpc = IF Len(task) = 0 THEN "drain" ELSE "spawn"
    /\ spawned = 0
    /\ ret = None

\* A scope that spawns the thread of the first plugin only.
SpawnFirstOnly ==
    /\ mainpc = "spawn"
    /\ spawned < Len(task)
    /\ spawned' = spawned + 1
    /\ task' = [task EXCEPT ![spawned + 1] =
                  NewTask(IF IsPluginTask(spawned + 1) THEN "start" ELSE "remove")]
    /\ mainpc' = "drain"
    /\ UNCHANGED <<inputVars, mode, fsVars, history, chan, kak, errors, changes,
                   printed, received, ret>>

\* s.spawn of the next thread: the two for loops of the scope.  After the
\* last one mem::drop(sender) runs and the main thread enters the loop.
Spawn ==
    /\ mainpc = "spawn"
    /\ spawned < Len(task)
    /\ spawned' = spawned + 1
    /\ task' = [task EXCEPT ![spawned + 1] =
                  NewTask(IF IsPluginTask(spawned + 1) THEN "start" ELSE "remove")]
    /\ mainpc' = IF spawned + 1 = Len(task) THEN "drain" ELSE "spawn"
    /\ UNCHANGED <<inputVars, mode, fsVars, history, chan, kak, errors, changes,
                   printed, received, ret>>

\* remove_dir in a spawned thread: fs::remove_dir_all may fail.
RemoveDir(t) ==
    /\ task[t].pc = "remove"
    /\ LET path == RemovedOf(t)
           name == path[2]
       IN  \/ /\ path \in dirs
              /\ dirs' = dirs \ {path}
              /\ Step(t, "remove_dir_all", NoProcess, "finished",
                      [result |-> Ok(Deleted(name))])
           \/ /\ UNCHANGED dirs
              /\ Fail(t, "remove_dir_all", NoProcess,
                      PluginError("Delete", name, <<"io error">>))
    /\ UNCHANGED <<inputVars, mode, links, autoload, head, upstream, history,
                   consumerVars>>

\* A thread that writes its fragment to almoxarife.kak itself before it
\* sends its result.
SendAndWrite(t) ==
    /\ task[t].pc = "finished"
    /\ chan' = Append(chan, [from |-> t, result |-> task[t].result])
    /\ kak' = IF task[t].result.ok /\ task[t].result.value.kind # "Deleted"
              THEN Append(kak, task[t].result.value.config)
              ELSE kak
    /\ task' = [task EXCEPT ![t] = [NewTask("done") EXCEPT !.result = task[t].result]]
    /\ history' = Append(history, t)
    /\ UNCHANGED <<inputVars, mode, fsVars, errors, changes,
                   printed, received, mainpc, spawned, ret>>

\* A thread that sends its result twice.
SendTwice(t) ==
    /\ task[t].pc = "finished"
    /\ chan' = chan \o << [from |-> t, result |-> task[t].result],
                          [from |-> t, result |-> task[t].result] >>
    /\ task' = [task EXCEPT ![t] = [NewTask("done") EXCEPT !.result = task[t].result]]
    /\ history' = Append(history, t)
    /\ UNCHANGED <<inputVars, mode, fsVars, kak, errors, changes,
                   printed, received, mainpc, spawned, ret>>

\* sender.send(result), the last statement of a thread; the thread ends and
\* its clone of the sender is dropped.
Send(t) ==
    /\ task[t].pc = "finished"
    /\ chan' = Append(chan, [from |-> t, result |-> task[t].result])
    /\ task' = [task EXCEPT ![t] = [NewTask("done") EXCEPT !.result = task[t].result]]
    /\ history' = Append(history, t)
    /\ UNCHANGED <<inputVars, mode, fsVars, kak, errors, changes,
                   printed, received, mainpc, spawned, ret>>

\* The line println! prints for a status.
Label(kind) ==
    CASE kind = "Installed" -> "installed"
      [] kind = "Unchanged" -> "unchanged"
      [] kind = "Updated"   -> "updated"
      [] kind = "Local"     -> "local"
      [] kind = "Deleted"   -> "removed"

\* PluginError::plugin
plugin(error) == error.name

\* A SetupError of Kak::write or Kak::close, in its context.
WriteError == Err([kind |-> "Context", context |-> "couldn't setup plugins",
                   error |-> "error writing kak file"])

\* name.color(colour): the text with the escape codes of the colour.
Color(text, colour) == [text |-> text, color |-> colour]

\* A Display of PluginError that words a failed pull as a failed clone.
PluginErrorDisplayOneWording(error) ==
    CASE error.kind = "Clone" ->
           <<Color(error.name, "RedFg"), ": could not clone: ", error.message>>
      [] error.kind = "Pull" ->
           <<Color(error.name, "RedFg"), ": could not clone: ", error.message>>
      [] error.kind = "Link" ->
           <<Color(error.name, "RedFg"), ": could not activate: ", error.message>>

\* impl Display for PluginError: the pieces write! concatenates.  setup.rs
\* has the arms of Clone, Pull and Link.
PluginErrorDisplay(error) ==
    CASE error.kind = "Clone" ->
           <<Color(error.name, "RedFg"), ": could not clone: ", error.message>>
      [] error.kind = "Pull" ->
           <<Color(error.name, "RedFg"), ": could not update: ", error.message>>
      [] error.kind = "Link" ->
           <<Color(error.name, "RedFg"), ": could not activate: ", error.message>>

RECURSIVE JoinLines(_, _)
\* messages.join(separator)
JoinLines(messages, separator) ==
    IF messages = <<>> THEN <<>>
    ELSE IF Len(messages) = 1 THEN <<PluginErrorDisplay(messages[1])>>
    ELSE <<PluginErrorDisplay(messages[1]), separator>>
             \o JoinLines(Tail(messages), separator)

\* impl Display for Error, which main() prints when it returns Err.
ErrorDisplay(error) ==
    IF error.kind = "Context" THEN <<error.context, ": ", error.error>>
    ELSE <<"\n  ">> \o JoinLines(error.errors, "\n  ")

\* A consumer that returns at the first error it receives.
RecvFailFast ==
    /\ mainpc = "drain"
    /\ chan # <<>>
    /\ chan' = Tail(chan)
    /\ received' = Append(received, Head(chan).from)
    /\ LET r == Head(chan).result
           v == r.value
       IN  IF r.ok /\ v.kind = "Deleted" THEN
               /\ printed' = Append(printed, [name |-> v.name, label |-> Label(v.kind)])
               /\ UNCHANGED <<kak, errors, changes, mainpc, ret>>
           ELSE IF r.ok THEN
               \/ /\ kak' = Append(kak, v.config)
                  /\ printed' = Append(printed,
                                       [name |-> v.name, label |-> Label(v.kind)])
                  /\ changes' = IF v.kind = "Updated"
                                THEN Append(changes, [name |-> v.name, log |-> v.log])
                                ELSE changes
                  /\ UNCHANGED <<errors, mainpc, ret>>
               \/ /\ mainpc' = "write_failed"
                  /\ UNCHANGED <<kak, printed, changes, errors, ret>>
           ELSE
               /\ printed' = Append(printed, [name |-> plugin(v), label |-> "failed"])
               /\ errors' = Append(errors, v)
               /\ mainpc' = "returned"
               /\ ret' = Err([kind |-> "Plugins", errors |-> errors'])
               /\ UNCHANGED <<kak, changes>>
    /\ UNCHANGED <<inputVars, mode, fsVars, task, history, spawned>>

\* A consumer that stops writing fragments once it has recorded an error.
RecvLosingFragment ==
    /\ mainpc = "drain"
    /\ chan # <<>>
    /\ chan' = Tail(chan)
    /\ received' = Append(received, Head(chan).from)
    /\ LET r == Head(chan).result
           v == r.value
       IN  IF r.ok /\ v.kind = "Deleted" THEN
               /\ printed' = Append(printed, [name |-> v.name, label |-> Label(v.kind)])
               /\ UNCHANGED <<kak, errors, changes, mainpc>>
           ELSE IF r.ok THEN
               \/ /\ kak' = IF errors = <<>> THEN Append(kak, v.config) ELSE kak
                  /\ printed' = Append(printed,
                                       [name |-> v.name, label |-> Label(v.kind)])
                  /\ changes' = IF v.kind = "Updated"
                                THEN Append(changes, [name |-> v.name, log |-> v.log])
                                ELSE changes
                  /\ UNCHANGED <<errors, mainpc>>
               \/ /\ mainpc' = "write_failed"
                  /\ UNCHANGED <<kak, printed, changes, errors>>
           ELSE
               /\ printed' = Append(printed, [name |-> plugin(v), label |-> "failed"])
               /\ errors' = Append(errors, v)
               /\ UNCHANGED <<kak, changes, mainpc>>
    /\ UNCHANGED <<inputVars, mode, fsVars, task, history, spawned, ret>>

\* A consumer that takes the newest message of the channel.
RecvNewestFirst ==
    /\ mainpc = "drain"
    /\ chan # <<>>
    /\ chan' = SubSeq(chan, 1, Len(chan) - 1)
    /\ received' = Append(received, chan[Len(chan)].from)
    /\ LET r == chan[Len(chan)].result
           v == r.value
       IN  IF r.ok /\ v.kind = "Deleted" THEN
               /\ printed' = Append(printed, [name |-> v.name, label |-> Label(v.kind)])
               /\ UNCHANGED <<kak, errors, changes, mainpc>>
           ELSE IF r.ok THEN
               \/ /\ kak' = Append(kak, v.config)
                  /\ printed' = Append(printed,
                                       [name |-> v.name, label |-> Label(v.kind)])
                  /\ changes' = IF v.kind = "Updated"
                                THEN Append(changes, [name |-> v.name, log |-> v.log])
                                ELSE changes
                  /\ UNCHANGED <<errors, mainpc>>
               \/ /\ mainpc' = "write_failed"
                  /\ UNCHANGED <<kak, printed, changes, errors>>
           ELSE
               /\ printed' = Append(printed, [name |-> plugin(v), label |-> "failed"])
               /\ errors' = Append(errors, v)
               /\ UNCHANGED <<kak, changes, mainpc>>
    /\ UNCHANGED <<inputVars, mode, fsVars, task, history, spawned, ret>>

\* A consumer that writes a line to almoxarife.kak for a failed result.
RecvWritingFailures ==
    /\ mainpc = "drain"
    /\ chan # <<>>
    /\ chan' = Tail(chan)
    /\ received' = Append(received, Head(chan).from)
    /\ LET r == Head(chan).result
           v == r.value
       IN  IF r.ok /\ v.kind = "Deleted" THEN
               /\ printed' = Append(printed, [name |-> v.name, label |-> Label(v.kind)])
               /\ UNCHANGED <<kak, errors, changes, mainpc>>
           ELSE IF r.ok THEN
               \/ /\ kak' = Append(kak, v.config)
                  /\ printed' = Append(printed,
                                       [name |-> v.name, label |-> Label(v.kind)])
                  /\ changes' = IF v.kind = "Updated"
                                THEN Append(changes, [name |-> v.name, log |-> v.log])
                                ELSE changes
                  /\ UNCHANGED <<errors, mainpc>>
               \/ /\ mainpc' = "write_failed"
                  /\ UNCHANGED <<kak, printed, changes, errors>>
           ELSE
               /\ printed' = Append(printed, [name |-> plugin(v), label |-> "failed"])
               /\ errors' = Append(errors, v)
               /\ kak' = Append(kak, <<"# failed: ", plugin(v)>>)
               /\ UNCHANGED <<changes, mainpc>>
    /\ UNCHANGED <<inputVars, mode, fsVars, task, history, spawned, ret>>

\* A consumer that lists an installed plugin among the changes too.
RecvListingInstalled ==
    /\ mainpc = "drain"
    /\ chan # <<>>
    /\ chan' = Tail(chan)
    /\ received' = Append(received, Head(chan).from)
    /\ LET r == Head(chan).result
           v == r.value
       IN  IF r.ok /\ v.kind = "Deleted" THEN
               /\ printed' = Append(printed, [name |-> v.name, label |-> Label(v.kind)])
               /\ UNCHANGED <<kak, errors, changes, mainpc>>
           ELSE IF r.ok THEN
               \/ /\ kak' = Append(kak, v.config)
                  /\ printed' = Append(printed,
                                       [name |-> v.name, label |-> Label(v.kind)])
                  /\ changes' = IF v.kind = "Updated"
                                THEN Append(changes, [name |-> v.name, log |-> v.log])
                                ELSE IF v.kind = "Installed"
                                THEN Append(changes, [name |-> v.name, log |-> <<>>])
                                ELSE changes
                  /\ UNCHANGED <<errors, mainpc>>
               \/ /\ mainpc' = "write_failed"
                  /\ UNCHANGED <<kak, printed, changes, errors>>
           ELSE
               /\ printed' = Append(printed, [name |-> plugin(v), label |-> "failed"])
               /\ errors' = Append(errors, v)
               /\ UNCHANGED <<kak, changes, mainpc>>
    /\ UNCHANGED <<inputVars, mode, fsVars, task, history, spawned, ret>>

\* One turn of while let Ok(result) = receiver.recv(): the match on result.
\* kak.write may fail, and the ? operator then leaves the closure.
Recv ==
    /\ mainpc = "drain"
    /\ chan # <<>>
    /\ chan' = Tail(chan)
    /\ received' = Append(received, Head(chan).from)
    /\ LET r == Head(chan).result
           v == r.value
       IN  IF r.ok /\ v.kind = "Deleted" THEN
               /\ printed' = Append(printed, [name |-> v.name, label |-> Label(v.kind)])
               /\ UNCHANGED <<kak, errors, changes, mainpc>>
           ELSE IF r.ok THEN
               \/ /\ kak' = Append(kak, v.config)
                  /\ printed' = Append(printed,
                                       [name |-> v.name, label |-> Label(v.kind)])
                  /\ changes' = IF v.kind = "Updated"
                                THEN Append(changes, [name |-> v.name, log |-> v.log])
                                ELSE changes
                  /\ UNCHANGED <<errors, mainpc>>
               \/ /\ mainpc' = "write_failed"
                  /\ UNCHANGED <<kak, printed, changes, errors>>
           ELSE
               /\ printed' = Append(printed, [name |-> plugin(v), label |-> "failed"])
               /\ errors' = Append(errors, v)
               /\ UNCHANGED <<kak, changes, mainpc>>
    /\ UNCHANGED <<inputVars, mode, fsVars, task, history, spawned, ret>>

\* A loop whose recv never fails: the main thread keeps its sender, so the
\* channel is never disconnected and the loop is never left.
CloseKeepingSender ==
    /\ mainpc = "drain"
    /\ chan = <<>>
    /\ AllDone
    /\ FALSE
    /\ UNCHANGED vars

\* A close that leaves the file without terminator when update() calls
\* failed.
CloseUnterminatedOnErrors ==
    /\ mainpc = "drain"
    /\ chan = <<>>
    /\ AllDone
    /\ mainpc' = "returned"
    /\ \/ /\ kak' = IF errors # <<>> THEN kak ELSE Append(kak, Terminator)
          /\ ret' = IF errors # <<>>
                    THEN Err([kind |-> "Plugins", errors |-> errors])
                    ELSE Ok(<<>>)
       \/ /\ UNCHANGED kak
          /\ ret' = WriteError
    /\ UNCHANGED <<inputVars, mode, fsVars, task, history, chan, errors, changes,
                   printed, received, spawned>>

\* A close that writes the terminator twice.
CloseTwice ==
    /\ mainpc = "drain"
    /\ chan = <<>>
    /\ AllDone
    /\ mainpc' = "returned"
    /\ \/ /\ kak' = kak \o <<Terminator, Terminator>>
          /\ ret' = IF errors # <<>>
                    THEN Err([kind |-> "Plugins", errors |-> errors])
                    ELSE Ok(<<>>)
       \/ /\ UNCHANGED kak
          /\ ret' = WriteError
    /\ UNCHANGED <<inputVars, mode, fsVars, task, history, chan, errors, changes,
                   printed, received, spawned>>

\* A close that returns Ok(()) whatever the error list holds.
CloseIgnoringErrors ==
    /\ mainpc = "drain"
    /\ chan = <<>>
    /\ AllDone
    /\ mainpc' = "returned"
    /\ \/ /\ kak' = Append(kak, Terminator)
          /\ ret' = Ok(<<>>)
       \/ /\ UNCHANGED kak
          /\ ret' = WriteError
    /\ UNCHANGED <<inputVars, mode, fsVars, task, history, chan, errors, changes,
                   printed, received, spawned>>

\* recv() returns Err once every sender is dropped and the channel is empty:
\* the loop and the scope end, kak.close() writes the terminator (and may
\* fail), and manage_plugins returns Err(Error::Plugins(errors)) or Ok(()).
Close ==
    /\ mainpc = "drain"
    /\ chan = <<>>
    /\ AllDone
    /\ mainpc' = "returned"
    /\ \/ /\ kak' = Append(kak, Terminator)
          /\ ret' = IF errors # <<>>
                    THEN Err([kind |-> "Plugins", errors |-> errors])
                    ELSE Ok(<<>>)
       \/ /\ UNCHANGED kak
          /\ ret' = WriteError
    /\ UNCHANGED <<inputVars, mode, fsVars, task, history, chan, errors, changes,
                   printed, received, spawned>>

\* A return of the write error that does not wait for the threads.
ReturnWriteErrorAtOnce ==
    /\ mainpc = "write_failed"
    /\ mainpc' = "returned"
    /\ ret' = WriteError
    /\ UNCHANGED <<inputVars, mode, fsVars, task, history, chan, kak, errors,
                   changes, printed, received, spawned>>

\* After a failed write the scope still joins every thread; then the ? after
\* thread::scope returns the error.
ReturnWriteError ==
    /\ mainpc = "write_failed"
    /\ AllDone
    /\ mainpc' = "returned"
    /\ ret' = WriteError
    /\ UNCHANGED <<inputVars, mode, fsVars, task, history, chan, kak, errors,
                   changes, printed, received, spawned>>

StartAny == \E t \in Tasks : Start(t)

CloneAny == \E t \in Tasks : CloneRepo(t, Exits)

RevOldAny == \E t \in Tasks : RevOld(t, Exits)

PullAny == \E t \in Tasks : Pull(t, Exits)

RevNewAny == \E t \in Tasks : RevNew(t, Exits)

LogAny == \E t \in Tasks : Log(t, Exits)

SymlinkAny == \E t \in Tasks : Symlink(t)

RemoveAny == \E t \in Tasks : RemoveDir(t)

SendAny == \E t \in Tasks : Send(t)

Next ==
    \/ Spawn
    \/ StartAny
    \/ CloneAny
    \/ RevOldAny
    \/ PullAny
    \/ RevNewAny
    \/ LogAny
    \/ SymlinkAny
    \/ RemoveAny
    \/ SendAny
    \/ Recv
    \/ Close
    \/ ReturnWriteError

Init == InitManage

Spec == Init /\ [][Next]_vars

\* The steps of thread t.
ThreadStep(t) ==
    /\ t \in Tasks
    /\ \/ Start(t)
       \/ CloneRepo(t, Exits)
       \/ RevOld(t, Exits)
       \/ Pull(t, Exits)
       \/ RevNew(t, Exits)
       \/ Log(t, Exits)
       \/ Symlink(t)
       \/ RemoveDir(t)
       \/ Send(t)

\* The runs in which every plugin is a top-level entry, remote and enabled,
\* and every origin is at revision MaxRev.
InitDrain ==
    /\ InitManage
    /\ \A i \in Nodes(tree) :
          tree.parent[i] = 0 /\ ~is_local(tree.location[i]) /\ ~tree.disabled[i]
    /\ \A r \in RepoPaths : upstream[r] = MaxRev

\* The main thread and every spawned thread keep running: a thread that can
\* take a step takes it (its git processes end), and so does the main thread
\* when it can spawn, receive, close or return.
Fairness ==
    /\ WF_vars(Spawn)
    /\ WF_vars(Recv)
    /\ WF_vars(Close)
    /\ WF_vars(ReturnWriteError)
    /\ \A t \in 1..MaxThreads : WF_vars(ThreadStep(t))

SpecDrain == InitDrain /\ [][Next]_vars /\ Fairness

(* ---------------- update() called again and again -------------------- *)

\* One Plugin value, as Plugin::new builds it, and a caller that calls
\* update() on it up to MaxRuns times (update(self) consumes the value: the
\* caller builds an equal one).  Between two calls the origin may receive
\* commits and Setup::create_dirs may run.

\* The state of the manage_plugins part, unused here.
NoConsumer ==
    /\ removed = <<>>
    /\ chan = <<>>
    /\ kak = <<>>
    /\ errors = <<>>
    /\ changes = <<>>
    /\ printed = <<>>
    /\ received = <<>>
    /\ mainpc = "idle"
    /\ spawned = 0
    /\ ret = None

\* What the caller sees of the filesystem for plugin p.
Snapshot(p) ==
    [ repo   |-> p.repository_path \in dirs,
      link   |-> LinkExists(p.link_path),
      valid  |-> /\ <<p.link_path, p.repository_path>> \in links
                 /\ p.repository_path \in dirs,
      behind |-> /\ ~p.is_local
                 /\ head[p.repository_path] # upstream[p.repository_path] ]

InitUpdate ==
    /\ IsTreeOver(tree, 1, {<<"https://", "host/repo">>, <<"/", "home/user/repo">>})
    /\ \E p \in Range(active_plugins(tree)) : flat = <<p>>
    /\ mode = [at |-> "idle", before |-> None, runs |-> 0, touched |-> {},
               installed |-> FALSE]
    /\ \E exists \in BOOLEAN :
         /\ dirs = IF exists THEN {flat[1].repository_path} ELSE {}
         /\ head = [r \in RepoPaths |->
                      IF exists /\ r = flat[1].repository_path THEN 1
                      ELSE NoRevision]
    /\ upstream \in [RepoPaths -> 1..MaxRev]
    /\ \A r \in RepoPaths :
         (flat[1].is_local \/ r # flat[1].repository_path) => upstream[r] = 1
    /\ autoload \in BOOLEAN
    /\ links \in {{}, {<<flat[1].link_path, flat[1].repository_path>>}}
    /\ ~autoload => links = {}
    /\ task = <<NewTask("idle")>>
    /\ history = <<>>
    /\ NoConsumer

\* The caller calls update().
Call ==
    /\ mode.at = "idle"
    /\ mode.runs < MaxRuns
    /\ mode' = [mode EXCEPT !.at = "running", !.before = Snapshot(flat[1]),
                            !.runs = @ + 1]
    /\ task' = <<NewTask("start")>>
    /\ UNCHANGED <<inputVars, fsVars, history, consumerVars>>

\* What the caller keeps of a call: whether it returned Ok and which Status
\* or PluginError, the filesystem before and after, whether every git command
\* exited with 0, what happened since the call before, and whether an
\* earlier call had returned Installed.
Outcome ==
    [ ok        |-> task[1].result.ok,
      kind      |-> task[1].result.value.kind,
      before    |-> mode.before,
      after     |-> Snapshot(flat[1]),
      clean     |-> task[1].clean,
      touched   |-> mode.touched,
      reinstall |-> mode.installed ]

\* update() returns to the caller, who keeps the outcome of the last call.
Return ==
    /\ mode.at = "running"
    /\ task[1].pc = "finished"
    /\ history' = <<Outcome>>
    /\ mode' = [mode EXCEPT
                  !.at = "idle", !.before = None, !.touched = {},
                  !.installed = @ \/ (/\ task[1].result.ok
                                      /\ task[1].result.value.kind = "Installed")]
    /\ task' = <<NewTask("idle")>>
    /\ UNCHANGED <<inputVars, fsVars, consumerVars>>

\* The origin of the repository receives a commit.
UpstreamCommit ==
    /\ mode.at = "idle"
    /\ ~flat[1].is_local
    /\ upstream[flat[1].repository_path] < MaxRev
    /\ upstream' = [upstream EXCEPT ![flat[1].repository_path] = @ + 1]
    /\ mode' = [mode EXCEPT !.touched = @ \cup {"origin"}]
    /\ UNCHANGED <<inputVars, dirs, links, autoload, head, task, history,
                   consumerVars>>

\* Setup::create_dirs: autoload_plugins_dir is removed and created again.
CreateDirs ==
    /\ mode.at = "idle"
    /\ links' = {}
    /\ autoload' = TRUE
    /\ mode' = [mode EXCEPT !.touched = @ \cup {"autoload"}]
    /\ UNCHANGED <<inputVars, dirs, head, upstream, task, history,
                   consumerVars>>

StartUpdate == mode.at = "running" /\ Start(1)

CloneUpdate == mode.at = "running" /\ CloneRepo(1, Terminations)

RevOldUpdate == mode.at = "running" /\ RevOld(1, Terminations)

PullUpdate == mode.at = "running" /\ Pull(1, Terminations)

RevNewUpdate == mode.at = "running" /\ RevNew(1, Terminations)

LogUpdate == mode.at = "running" /\ Log(1, Terminations)

SymlinkUpdate == mode.at = "running" /\ Symlink(1)

NextUpdate ==
    \/ Call
    \/ StartUpdate
    \/ CloneUpdate
    \/ RevOldUpdate
    \/ PullUpdate
    \/ RevNewUpdate
    \/ LogUpdate
    \/ SymlinkUpdate
    \/ Return
    \/ UpstreamCommit
    \/ CreateDirs

SpecUpdate == InitUpdate /\ [][NextUpdate]_vars

(* --------------------- main() up to manage_plugins -------------------- *)

\* The environment variables Setup::with_env reads.
EnvVars == {"HOME", "XDG_CONFIG_HOME", "XDG_DATA_HOME"}

\* The values a variable has in the map given to with_env and in the
\* environment of the process: None when it is not there.
EnvValues(var) ==
    [ given   : {None, Some(<<"custom", var>>)},
      process : {None, Some(<<"process", var>>)} ]

\* get_var: the map first, the environment of the process otherwise.
get_var(environment, var) ==
    IF environment[var].given # None THEN environment[var].given
    ELSE environment[var].process

\* Path::join of a path and relative components.
PathJoin(path, components) == path \o components

\* A with_env that reads XDG_DATA_HOME only when XDG_CONFIG_HOME is set.
with_envDependentXdg(environment) ==
    LET home       == get_var(environment, "HOME")[1]
        xdg_config == get_var(environment, "XDG_CONFIG_HOME")
        xdg_data   == get_var(environment, "XDG_DATA_HOME")
        config_dir == IF xdg_config # None THEN <<xdg_config[1]>>
                      ELSE PathJoin(<<home>>, <<".config">>)
        autoload_dir == PathJoin(config_dir, <<"kak", "autoload">>)
        autoload_plugins_dir == PathJoin(autoload_dir, <<"almoxarife">>)
    IN  [ almoxarife_yaml_path |-> PathJoin(config_dir, <<"almoxarife.yaml">>),
          almoxarife_kak       |-> PathJoin(autoload_plugins_dir, <<"almoxarife.kak">>),
          autoload_dir         |-> autoload_dir,
          autoload_plugins_dir |-> autoload_plugins_dir,
          almoxarife_data_dir  |->
              IF xdg_data # None /\ xdg_config # None THEN PathJoin(<<xdg_data[1]>>, <<"almoxarife">>)
              ELSE PathJoin(<<home>>, <<".local", "share", "almoxarife">>) ]

\* Setup::with_env, for an environment in which HOME can be read.
with_env(environment) ==
    LET home       == get_var(environment, "HOME")[1]
        xdg_config == get_var(environment, "XDG_CONFIG_HOME")
        xdg_data   == get_var(environment, "XDG_DATA_HOME")
        config_dir == IF xdg_config # None THEN <<xdg_config[1]>>
                      ELSE PathJoin(<<home>>, <<".config">>)
        autoload_dir == PathJoin(config_dir, <<"kak", "autoload">>)
        autoload_plugins_dir == PathJoin(autoload_dir, <<"almoxarife">>)
    IN  [ almoxarife_yaml_path |-> PathJoin(config_dir, <<"almoxarife.yaml">>),
          almoxarife_kak       |-> PathJoin(autoload_plugins_dir, <<"almoxarife.kak">>),
          autoload_dir         |-> autoload_dir,
          autoload_plugins_dir |-> autoload_plugins_dir,
          almoxarife_data_dir  |->
              IF xdg_data # None THEN PathJoin(<<xdg_data[1]>>, <<"almoxarife">>)
              ELSE PathJoin(<<home>>, <<".local", "share", "almoxarife">>) ]

\* What File::open and serde_yaml::from_reader find at almoxarife_yaml_path.
YamlFiles == {"missing", "malformed", "empty mapping", "plugins"}

\* A SetupError in the context main() gives it.
InContext(context, error) ==
    Err([kind |-> "Context", context |-> context, error |-> error])

\* The directories, links and output file main() can change.
Disk == [dirs |-> dirs, links |-> links, kak |-> kak]

\* The process starts.  The environment is any, the configuration file is
\* missing, malformed, an empty mapping or a tree of remote plugins; of the
\* directories create_dirs makes, those of an earlier run may exist, the
\* plugins directory then with a link and the output file of that run.
InitMain ==
    /\ \E e \in [EnvVars -> UNION {EnvValues(var) : var \in EnvVars}] :
       \E y \in YamlFiles :
         /\ \A var \in EnvVars : e[var] \in EnvValues(var)
         /\ mode = [at |-> "main", pc |-> "with_env", env |-> e, yaml |-> y,
                    setup |-> None, before |-> None]
         /\ \E n \in 0..MaxThreads :
              /\ (y = "plugins") = (n > 0)
              /\ IsTreeOver(tree, n, {<<"https://", "host/repo">>})
              /\ \A i \in 1..n : tree.config[i] = "" /\ ~tree.disabled[i]
         /\ \E a, b, c \in BOOLEAN :
              /\ b => a
              /\ get_var(e, "HOME") = None => ~(a \/ b \/ c)
              /\ LET setup == with_env(e)
                 IN  IF get_var(e, "HOME") = None
                     THEN dirs = {} /\ links = {} /\ kak = <<>>
                     ELSE /\ dirs = (IF a THEN {setup.autoload_dir} ELSE {})
                                 \cup (IF b THEN {setup.autoload_plugins_dir} ELSE {})
                                 \cup (IF c THEN {setup.almoxarife_data_dir} ELSE {})
                          /\ links = IF b
                                     THEN {<<PathJoin(setup.autoload_plugins_dir, <<"luar">>),
                                             PathJoin(setup.almoxarife_data_dir, <<"luar">>)>>}
                                     ELSE {}
                          /\ kak = IF b THEN <<Prelude, Terminator>> ELSE <<>>
    /\ flat = <<>>
    /\ removed = <<>>
    /\ autoload = FALSE
    /\ head = [r \in RepoPaths |-> NoRevision]
    /\ upstream = [r \in RepoPaths |-> 1]
    /\ task = <<>>
    /\ history = <<>>
    /\ chan = <<>>
    /\ errors = <<>>
    /\ changes = <<>>
    /\ printed = <<>>
    /\ received = <<>>
    /\ mainpc = "main"
    /\ spawned = 0
    /\ ret = None

\* A step of main() that changes neither the disk nor the run's result.
MainStep(pc, fields) ==
    mode' = [f \in DOMAIN mode |->
                IF f = "pc" THEN pc
                ELSE IF f \in DOMAIN fields THEN fields[f]
                ELSE mode[f]]

\* main() returns Err(error).
MainFail(error) ==
    /\ MainStep("returned", <<>>)
    /\ ret' = error

\* Setup::new: with_env panics when HOME cannot be read.
SetupNew ==
    /\ mode.at = "main"
    /\ mode.pc = "with_env"
    /\ IF get_var(mode.env, "HOME") = None
       THEN MainStep("panicked", <<>>)
       ELSE MainStep("open_config_file",
                     [setup |-> with_env(mode.env), before |-> Disk])
    /\ UNCHANGED <<inputVars, fsVars, task, history, consumerVars>>

\* An open_config_file that accepts a configuration without plugins.
OpenConfigFileAcceptingEmpty ==
    /\ mode.at = "main"
    /\ mode.pc = "open_config_file"
    /\ CASE mode.yaml = "missing" ->
              MainFail(InContext("couldn't open almoxarife.yaml",
                                 <<"No such file or directory (os error 2)">>))
         [] mode.yaml = "malformed" ->
              MainFail(InContext("couldn't open almoxarife.yaml",
                                 <<"couldn't parse ", mode.setup.almoxarife_yaml_path,
                                   ": ", "serde_yaml error">>))
         [] OTHER ->
              MainStep("create_dirs", <<>>) /\ UNCHANGED ret
    /\ UNCHANGED <<inputVars, fsVars, task, history, chan, kak, errors, changes,
                   printed, received, mainpc, spawned>>

\* setup.open_config_file().context(...)?: Config::new and
\* Config::from_reader.
OpenConfigFile ==
    /\ mode.at = "main"
    /\ mode.pc = "open_config_file"
    /\ CASE mode.yaml = "missing" ->
              MainFail(InContext("couldn't open almoxarife.yaml",
                                 <<"No such file or directory (os error 2)">>))
         [] mode.yaml = "malformed" ->
              MainFail(InContext("couldn't open almoxarife.yaml",
                                 <<"couldn't parse ", mode.setup.almoxarife_yaml_path,
                                   ": ", "serde_yaml error">>))
         [] mode.yaml = "empty mapping" ->
              MainFail(InContext("couldn't open almoxarife.yaml",
                                 <<"configuration file has no YAML element">>))
         [] OTHER ->
              MainStep("create_dirs", <<>>) /\ UNCHANGED ret
    /\ UNCHANGED <<inputVars, fsVars, task, history, chan, kak, errors, changes,
                   printed, received, mainpc, spawned>>

\* setup.create_dirs().context(...)?: the autoload directory is created when
\* missing, and Kakoune's runtime directory linked into it, which can fail;
\* the plugins directory is removed and created again; the data directory is
\* created when missing.
MainCreateDirs ==
    /\ mode.at = "main"
    /\ mode.pc = "create_dirs"
    /\ LET setup == mode.setup
           rc    == <<PathJoin(setup.autoload_dir, <<"rc">>), <<"runtime", "rc">>>>
       IN  \/ /\ setup.autoload_dir \notin dirs
              /\ dirs' = dirs \cup {setup.autoload_dir}
              /\ MainFail(InContext("couldn't setup Almoxarife",
                     <<"unable to detect Kakoune's runtime directory", ": ",
                       "No such file or directory (os error 2)">>))
              /\ UNCHANGED <<links, kak>>
           \/ /\ dirs' = dirs \cup {setup.autoload_dir, setup.autoload_plugins_dir,
                                    setup.almoxarife_data_dir}
              /\ links' = IF setup.autoload_dir \notin dirs THEN {rc} ELSE {}
              /\ kak' = <<>>
              /\ MainStep("create_kak_file", <<>>)
              /\ UNCHANGED ret
    /\ UNCHANGED <<inputVars, autoload, head, upstream, task, history, chan,
                   errors, changes, printed, received, mainpc, spawned>>

\* setup.create_kak_file_with_prelude().context(...)?: File::create and
\* write_prelude, each of which can fail.
CreateKakFileWithPrelude ==
    /\ mode.at = "main"
    /\ mode.pc = "create_kak_file"
    /\ \/ /\ MainFail(InContext("couldn't configure plugins",
                 <<"couldn't create almoxarife.kak file", ": ",
                   "Permission denied (os error 13)">>))
          /\ UNCHANGED kak
       \/ /\ MainFail(InContext("couldn't configure plugins",
                                <<"error writing kak file">>))
          /\ UNCHANGED kak
       \/ /\ kak' = <<Prelude>>
          /\ MainStep("manage_plugins", <<>>)
          /\ UNCHANGED ret
    /\ UNCHANGED <<inputVars, fsVars, task, history, chan, errors, changes,
                   printed, received, mainpc, spawned>>

\* manage_plugins(config.active_plugins(), ...) is called: one thread for each
\* plugin is about to be spawned.
CallManagePlugins ==
    /\ mode.at = "main"
    /\ mode.pc = "manage_plugins"
    /\ flat' = active_plugins(tree)
    /\ task' = [t \in 1..Len(flat') |-> NewTask("unspawned")]
    /\ mainpc' = "spawn"
    /\ MainStep("spawning", <<>>)
    /\ UNCHANGED <<tree, removed, fsVars, history, chan, kak, errors, changes,
                   printed, received, spawned, ret>>

NextMain ==
    \/ SetupNew
    \/ OpenConfigFile
    \/ MainCreateDirs
    \/ CreateKakFileWithPrelude
    \/ CallManagePlugins

SpecMain == InitMain /\ [][NextMain]_vars

(* ============================ properties ============================== *)

(* ------------------------------ flattening ---------------------------- *)

\* A node is silenced when it or one of its ancestors is disabled.
Silenced(t, i) == \E a \in AncestorsOrSelf(t, i) : t.disabled[a]

\* C7: a node whose disabled flag is true contributes no flattened Plugin,
\* and neither does any node of its subtree, whatever the descendants' own
\* disabled flags are.
C7_DisabledSubtreePruned ==
    mode = "flattened" =>
        \A i \in Nodes(tree) :
            Silenced(tree, i) => \A k \in 1..Len(flat) : flat[k].node # i

\* A flattened tree with an enabled node under a disabled one, and a plugin
\* elsewhere.
C7_Witness ==
    /\ mode = "flattened"
    /\ flat # <<>>
    /\ \E i \in Nodes(tree) :
         /\ ~tree.disabled[i]
         /\ tree.parent[i] # 0
         /\ tree.disabled[tree.parent[i]]

(* --------------------------- manage_plugins, run by run --------------- *)

\* The threads whose result was an error.
Failed == {t \in Tasks : task[t].pc = "done" /\ ~task[t].result.ok}

\* The threads that ran update(), not remove_dir.
PluginTasks == {t \in Tasks : IsPluginTask(t)}

Count(seq, x) == Cardinality({i \in DOMAIN seq : seq[i] = x})

\* The lines printed for a status, not for an error.
StatusLines(labels) == {i \in DOMAIN printed : printed[i].label \in labels}

\* The fragments of the plugins whose update() returned a status, in the order
\* the consumer received them.
Wrote(t) == task[t].result.ok /\ task[t].result.value.kind # "Deleted"

RECURSIVE Fragments(_)
Fragments(ts) ==
    IF ts = <<>> THEN <<>>
    ELSE (IF Wrote(Head(ts)) THEN <<task[Head(ts)].result.value.config>> ELSE <<>>)
             \o Fragments(Tail(ts))

\* manage_plugins returned and none of its writes to almoxarife.kak failed.
ReturnedWritten == mainpc = "returned" /\ ret # WriteError

\* C1: when manage_plugins returns without a failed write, every thread ran
\* to its end and the consumer received its result and printed its line,
\* however many update() calls failed; the error list holds the failures.
C1_FailSlow ==
    ReturnedWritten =>
        /\ \A t \in Tasks : task[t].pc = "done" /\ Count(received, t) = 1
        /\ Len(printed) = Len(task)
        /\ Len(errors) = Cardinality(Failed)

\* An update() failed, and a result received after it was processed.
C1_Witness ==
    /\ ReturnedWritten
    /\ \E i, j \in DOMAIN received :
         /\ i < j
         /\ received[i] \in Failed \cap PluginTasks
         /\ received[j] \in PluginTasks \ Failed
         /\ printed[j].label # "failed"

\* C4 as stated: in any run with N threads of which k fail, the consumer
\* ends with k errors and N - k processed statuses, and almoxarife.kak holds
\* the fragment of every plugin whose update() succeeded.
C4_PartialProgress ==
    mainpc = "returned" =>
        /\ Len(errors) = Cardinality(Failed)
        /\ Cardinality(StatusLines({"installed", "unchanged", "updated", "local",
                                    "removed"}))
             = Cardinality(Tasks \ Failed)
        /\ \A t \in PluginTasks \ Failed :
             \E i \in DOMAIN kak : kak[i] = task[t].result.value.config

\* C4, amended: in any run in which no write to almoxarife.kak fails, with
\* N threads of which k fail, the consumer ends with k errors and N - k
\* processed statuses, and almoxarife.kak holds, between prelude and
\* terminator, the fragment of every plugin whose update() succeeded.
C4_PartialProgressWritten ==
    ReturnedWritten =>
        /\ Len(errors) = Cardinality(Failed)
        /\ Cardinality(StatusLines({"installed", "unchanged", "updated", "local",
                                    "removed"}))
             = Cardinality(Tasks \ Failed)
        /\ kak = <<Prelude>> \o Fragments(received) \o <<Terminator>>

\* A fragment written after an error was recorded.
C4_Witness ==
    /\ ReturnedWritten
    /\ Len(kak) > 2
    /\ Failed \cap PluginTasks # {}
    /\ \E j \in DOMAIN received :
         /\ Wrote(received[j])
         /\ \E i \in 1..(j - 1) : received[i] \in Failed

\* C5: when no write to almoxarife.kak fails, manage_plugins returns
\* Err(Error::Plugins(errors)) if and only if some thread's result was an
\* error, and Ok(()) otherwise.
C5_ExitContract ==
    ReturnedWritten =>
        /\ ~ret.ok <=> Failed # {}
        /\ ret.ok => ret = Ok(<<>>)
        /\ ~ret.ok => ret = Err([kind |-> "Plugins", errors |-> errors])

\* manage_plugins returned an error for one failure among successes.
C5_Witness ==
    /\ ReturnedWritten
    /\ ~ret.ok
    /\ Cardinality(Failed) = 1
    /\ Tasks \ Failed # {}

C19_OutputFraming ==
    /\ mode = "manage_plugins" =>
         /\ Len(kak) >= 1
         /\ kak[1] = Prelude
         /\ \A i \in 2..Len(kak) :
              /\ kak[i] # Prelude
              /\ kak[i] = Terminator => (i = Len(kak) /\ mainpc = "returned")
    /\ mainpc \in {"spawn", "drain"} => kak = <<Prelude>> \o Fragments(received)
    /\ mainpc = "write_failed" =>
         kak = <<Prelude>> \o Fragments(SubSeq(received, 1, Len(received) - 1))
    /\ ReturnedWritten =>
         /\ kak[Len(kak)] = Terminator
         /\ SubSeq(kak, 1, Len(kak) - 1) = <<Prelude>> \o Fragments(received)

\* Two fragments between prelude and terminator.
C19_Witness ==
    /\ ReturnedWritten
    /\ Len(kak) = 4
    /\ kak[2] # kak[3]

\* C20: almoxarife.kak changes only in a step of the consumer, the threads
\* leave it alone; the consumer appends the whole fragment of the successful
\* result it has just received, or the terminator when it closes the file.
C20_SingleWriter ==
    [][ kak' # kak =>
          /\ task' = task
          /\ \/ /\ mainpc = "drain"
                /\ mainpc' = "drain"
                /\ chan # <<>>
                /\ received' = Append(received, Head(chan).from)
                /\ Wrote(Head(chan).from)
                /\ kak' = Append(kak, config(flat[Head(chan).from]))
             \/ /\ mainpc = "drain"
                /\ mainpc' = "returned"
                /\ kak' = Append(kak, Terminator) ]_vars

\* A fragment is in the file while another thread is still running.
C20_Witness ==
    /\ mode = "manage_plugins"
    /\ Len(kak) = 2
    /\ mainpc = "drain"
    /\ \E t \in Tasks : IsPluginTask(t) /\ task[t].pc \in {"clone", "pull", "symlink"}

\* The paths update() writes for plugin p, and those it reads or writes.
WrittenPaths(p) ==
    (IF p.is_local THEN {} ELSE {p.repository_path}) \cup {p.link_path}

UsedPaths(p) == {p.repository_path, p.link_path}

\* C21 as stated: the update() of a child plugin ends the same way whatever
\* its parent's update() has done so far.  The autoload directory is empty
\* when the threads start, so a child whose path exists when it is local and
\* whose git commands all exited with 0 returns a status.
C21_ChildIndependent ==
    mode = "manage_plugins" =>
        \A t \in PluginTasks :
            (/\ flat[t].parent # None
             /\ task[t].pc = "finished"
             /\ task[t].clean
             /\ flat[t].is_local => flat[t].repository_path \in dirs)
                => task[t].result.ok

\* C26 as stated: when two threads have both called symlink, the paths one
\* of them writes are disjoint from the paths the other reads or writes.
C26_DisjointPaths ==
    mode = "manage_plugins" =>
        \A t, u \in PluginTasks :
            (/\ t # u
             /\ task[t].pc = "finished" /\ "symlink" \in Range(task[t].calls)
             /\ task[u].pc = "finished" /\ "symlink" \in Range(task[u].calls))
                => WrittenPaths(flat[t]) \cap UsedPaths(flat[u]) = {}

\* C22: while the consumer drains the channel the threads it has received
\* are the first of those that sent, in the order they sent, and the file is
\* the prelude followed by the fragments of their statuses in that order;
\* when manage_plugins returns without a failed write the fragments of the
\* file are those of all the threads in the order they sent.
C22_FragmentsInSendOrder ==
    mode = "manage_plugins" =>
        /\ Len(received) <= Len(history)
        /\ received = SubSeq(history, 1, Len(received))
        /\ mainpc = "drain" => kak = <<Prelude>> \o Fragments(received)
        /\ ReturnedWritten =>
               kak = <<Prelude>> \o Fragments(history) \o <<Terminator>>

\* The thread spawned second sent first, both returned a status, and the
\* file holds the two different fragments with that of the second first.
C22_Witness ==
    /\ mode = "manage_plugins"
    /\ ReturnedWritten
    /\ history = <<2, 1>>
    /\ Wrote(1) /\ Wrote(2)
    /\ task[1].result.value.config # task[2].result.value.config
    /\ kak = <<Prelude, task[2].result.value.config,
               task[1].result.value.config, Terminator>>

\* C25: when manage_plugins returns the errors of update() calls, the report
\* has one line for each of them, in the order they were collected; the line
\* is the name of a plugin whose update() failed, then ": could not clone: "
\* for a Clone error, ": could not update: " for a Pull error and
\* ": could not activate: " for a Link error, then the message.
C25_ErrorLines ==
    (/\ mode = "manage_plugins"
     /\ mainpc = "returned"
     /\ ~ret.ok /\ ret.value.kind = "Plugins"
     /\ \A k \in 1..Len(errors) : errors[k].kind \in {"Clone", "Pull", "Link"}) =>
        LET report == ErrorDisplay(ret.value)
        IN  /\ Len(report) = 2 * Len(errors)
            /\ \A k \in 1..Len(errors) :
                 LET line == report[2 * k]
                 IN  /\ report[2 * k - 1] = "\n  "
                     /\ Len(line) = 3
                     /\ line[1].text = errors[k].name
                     /\ \E t \in PluginTasks :
                            flat[t].name = line[1].text /\ ~task[t].result.ok
                     /\ line[2] = (CASE errors[k].kind = "Clone" -> ": could not clone: "
                                     [] errors[k].kind = "Pull" -> ": could not update: "
                                     [] errors[k].kind = "Link" -> ": could not activate: ")
                     /\ line[3] = errors[k].message

\* manage_plugins returned a failed pull and a failed clone.
C25_Witness ==
    /\ mode = "manage_plugins"
    /\ mainpc = "returned"
    /\ ~ret.ok /\ ret.value.kind = "Plugins"
    /\ Len(errors) = 2
    /\ errors[1].kind = "Pull" /\ errors[2].kind = "Clone"
    /\ Len(ErrorDisplay(ret.value)) = 4

\* The consumer loop has ended: recv failed on the disconnected channel, or
\* a failed write left the closure.
LoopEnded == mainpc \in {"returned", "write_failed"}

AllReceived == \A t \in Tasks : Count(received, t) = 1

\* C30 as stated: when the consumer loop has ended, the result of every
\* thread has been received.
C30_EndsAfterEveryResult ==
    mode = "manage_plugins" => (LoopEnded => AllReceived)

\* C30: when every thread keeps running to its end, manage_plugins eventually
\* returns, and unless a write to almoxarife.kak failed it has then received
\* the result of every thread and the channel is empty.
C30_DrainTerminates ==
    <>(/\ mainpc = "returned"
       /\ AllDone
       /\ ret # WriteError => (AllReceived /\ chan = <<>>))

\* manage_plugins returned after two threads and no failed write.
C30_Witness ==
    /\ mode = "manage_plugins"
    /\ mainpc = "returned"
    /\ ret # WriteError
    /\ Len(task) = 2
    /\ AllReceived

\* C31: after a failed write of a fragment the consumer receives nothing
\* more and writes nothing more, so the file never gets the terminator; the
\* threads still running go on to their end and send; and when every thread
\* keeps running manage_plugins returns the write error, after all of them
\* have ended.
C31_WriteFailureReturns ==
    /\ [][ mainpc = "write_failed" =>
             /\ received' = received
             /\ kak' = kak
             /\ printed' = printed
             /\ errors' = errors
             /\ mainpc' = "returned" => (AllDone /\ ret' = WriteError) ]_vars
    /\ [](mainpc = "write_failed" => Terminator \notin Range(kak))
    /\ (mainpc = "write_failed") ~>
           (mainpc = "returned" /\ ret = WriteError /\ AllDone)

\* manage_plugins returned the write error of a fragment: a thread sent after
\* the failure, its result is still in the channel and was never received.
C31_Witness ==
    /\ mode = "manage_plugins"
    /\ mainpc = "returned"
    /\ ret = WriteError
    /\ AllDone
    /\ chan # <<>>
    /\ Len(received) < Len(task)
    /\ Terminator \notin Range(kak)

\* C32: when manage_plugins has returned and no write failed, the file holds
\* the terminator exactly once, in its last place, after the fragment of every
\* status; this is so when the error list is empty and when it is not, and a
\* returned run whose file has no terminator returned a write error.
C32_TerminatorDespiteErrors ==
    (mode = "manage_plugins" /\ mainpc = "returned") =>
        /\ ret # WriteError =>
             /\ Count(kak, Terminator) = 1
             /\ kak[Len(kak)] = Terminator
             /\ Len(kak) = 2 + Cardinality({t \in Tasks : Wrote(t)})
             /\ (errors # <<>>) = ~ret.ok
        /\ Count(kak, Terminator) = 0 => ret = WriteError

\* A run with a failed update() and a fragment, closed by the terminator.
C32_Witness ==
    /\ mode = "manage_plugins"
    /\ mainpc = "returned"
    /\ ~ret.ok /\ ret # WriteError
    /\ errors # <<>>
    /\ Len(kak) = 3
    /\ kak[3] = Terminator

\* C33 as stated: once manage_plugins has returned, the file holds the
\* fragment of a plugin if and only if its update() returned Ok.
C33_FragmentIffOk ==
    (mode = "manage_plugins" /\ mainpc = "returned") =>
        \A t \in PluginTasks :
            (config(flat[t]) \in Range(kak)) <=> task[t].result.ok

\* C33: everything in the file after the prelude is the terminator or the
\* fragment of a plugin of the list whose update() returned Ok, each at most
\* once, so failed updates, disabled plugins and removed directories add
\* nothing; and when manage_plugins has returned without a failed write the
\* file holds the fragment of a plugin if and only if its update() returned
\* Ok.
C33_OnlySuccessesEmit ==
    mode = "manage_plugins" =>
        /\ \A i \in 2..Len(kak) :
             \/ kak[i] = Terminator
             \/ \E t \in PluginTasks :
                  /\ task[t].result.ok
                  /\ kak[i] = config(flat[t])
                  /\ Count(kak, kak[i]) = 1
        /\ ReturnedWritten =>
             \A t \in PluginTasks :
                 (config(flat[t]) \in Range(kak)) <=> task[t].result.ok

\* A returned run with an update() that returned a status and one that
\* failed: the file has the one fragment.
C33_Witness ==
    /\ mode = "manage_plugins"
    /\ ReturnedWritten
    /\ Len(kak) = 3
    /\ \E t, u \in PluginTasks : task[t].result.ok /\ ~task[u].result.ok
    /\ kak[2] \in {config(flat[t]) : t \in PluginTasks}

\* C35: the list manage_plugins is called with holds exactly one Plugin for
\* each node of the tree that is not disabled and has no disabled ancestor,
\* and none for the others, also when two nodes have the same name; the
\* threads that run update() are as many as the list is long, thread t for
\* the t-th Plugin, each spawned once, and all spawned when the consumer
\* starts to drain.
C35_OneTaskPerActiveNode ==
    mode = "manage_plugins" =>
        /\ \A i \in Nodes(tree) :
             Cardinality({k \in 1..Len(flat) : flat[k].node = i})
                 = IF Silenced(tree, i) THEN 0 ELSE 1
        /\ \A k \in 1..Len(flat) : flat[k].name = tree.name[flat[k].node]
        /\ Cardinality(PluginTasks) = Len(flat)
        /\ \A t \in PluginTasks :
             /\ (task[t].pc = "unspawned") = (t > spawned)
             /\ Count(task[t].calls, "metadata") <= 1
             /\ task[t].pc \in {"finished", "done"} =>
                  (IF task[t].result.ok THEN task[t].result.value.name
                   ELSE plugin(task[t].result.value)) = flat[t].name
        /\ mainpc # "spawn" => spawned = Len(task)

\* Two nodes with the same name, each with its Plugin and its thread, both
\* ended.
C35_Witness ==
    /\ mode = "manage_plugins"
    /\ Len(flat) = 2
    /\ flat[1].name = flat[2].name
    /\ flat[1].node # flat[2].node
    /\ task[1].pc = "done" /\ task[2].pc = "done"

(* ------------------------------ main() -------------------------------- *)

\* C23: when almoxarife.yaml is missing, malformed or an empty mapping,
\* main() gets no further than open_config_file: it returns the error in the
\* context "couldn't open almoxarife.yaml", the directories, the links and
\* the output file are as they were when the process started, and no plugin
\* was built and no thread prepared.
C23_ConfigFailureIsFatal ==
    (mode.yaml # "plugins" /\ mode.setup # None) =>
        /\ mode.pc \in {"open_config_file", "returned"}
        /\ Disk = mode.before
        /\ flat = <<>> /\ task = <<>>
        /\ mode.pc = "returned" =>
              /\ ~ret.ok
              /\ ret.value.context = "couldn't open almoxarife.yaml"

\* main() returned the error of an empty mapping while the plugins directory
\* of an earlier run, with its link and its output file, was on the disk.
C23_Witness ==
    /\ mode.yaml = "empty mapping"
    /\ mode.pc = "returned"
    /\ ret = InContext("couldn't open almoxarife.yaml",
                       <<"configuration file has no YAML element">>)
    /\ mode.setup.autoload_plugins_dir \in dirs
    /\ links # {}
    /\ kak = <<Prelude, Terminator>>

\* C27: with_env panics exactly when HOME cannot be read; otherwise
\* almoxarife.yaml and kak/autoload/almoxarife are under XDG_CONFIG_HOME when
\* it can be read and under HOME/.config when not, and the data directory is
\* XDG_DATA_HOME/almoxarife when XDG_DATA_HOME can be read and
\* HOME/.local/share/almoxarife when not, each whatever the other variable is.
C27_DirectoryDerivation ==
    LET Read(var) == get_var(mode.env, var)
        Under(var, default) ==
            IF Read(var) # None THEN <<Read(var)[1]>>
            ELSE <<Read("HOME")[1]>> \o default
    IN  mode.pc # "with_env" =>
            /\ (mode.pc = "panicked") = (Read("HOME") = None)
            /\ mode.pc # "panicked" =>
                 /\ mode.setup.almoxarife_yaml_path =
                        Under("XDG_CONFIG_HOME", <<".config">>) \o <<"almoxarife.yaml">>
                 /\ mode.setup.autoload_plugins_dir =
                        Under("XDG_CONFIG_HOME", <<".config">>)
                            \o <<"kak", "autoload", "almoxarife">>
                 /\ mode.setup.almoxarife_data_dir =
                        Under("XDG_DATA_HOME", <<".local", "share">>) \o <<"almoxarife">>

\* with_env returned for an environment that has XDG_DATA_HOME and no
\* XDG_CONFIG_HOME: the data directory is under the first, the configuration
\* under HOME/.config.
C27_Witness ==
    /\ mode.setup # None
    /\ get_var(mode.env, "XDG_CONFIG_HOME") = None
    /\ get_var(mode.env, "XDG_DATA_HOME") # None
    /\ mode.setup.almoxarife_data_dir = <<<<"custom", "XDG_DATA_HOME">>, "almoxarife">>
    /\ mode.setup.almoxarife_yaml_path =
           <<<<"process", "HOME">>, ".config", "almoxarife.yaml">>

(* ------------------------- update(), call by call --------------------- *)

\* update() has run to its end on the plugin and has not yet returned.
Finished == mode.at = "running" /\ task[1].pc = "finished"

Remote == ~flat[1].is_local

LinkError(p, why) == Err(PluginError("Link", p.name, <<why, ": ", p.link_path>>))

\* The call before returned Ok with every git command exiting with 0, every
\* git command of this call exited with 0, and the origin received no commit
\* in between.
SecondQuietCall ==
    /\ Finished
    /\ Remote
    /\ history # <<>>
    /\ history[1].ok
    /\ history[1].clean
    /\ task[1].clean
    /\ "origin" \notin mode.touched

\* C2 as stated: of two consecutive update() calls with nothing else touching
\* the filesystem and no upstream change, the second returns Unchanged and
\* link_path is a valid symlink to repository_path after each.
C2_SecondCallUnchanged ==
    (SecondQuietCall /\ mode.touched = {}) =>
        /\ task[1].result = Ok(Unchanged(flat[1].name, config(flat[1])))
        /\ history[1].after.valid
        /\ Snapshot(flat[1]).valid

\* C3 as stated: when update() returns Installed for a remote plugin,
\* repository_path exists afterward, and a later update() on the same plugin
\* that returns a Status returns Unchanged or Updated, never Installed.
C3_InstalledOnce ==
    (Finished /\ Remote /\ task[1].result.ok) =>
        /\ task[1].result.value.kind = "Installed" => Snapshot(flat[1]).repo
        /\ mode.installed => task[1].result.value.kind \in {"Unchanged", "Updated"}

\* C8: for a remote plugin whose clone or pull path succeeded, a symlink
\* step that cannot make the link (link_path exists, or its directory does
\* not) makes update() return Err(Link) carrying the plugin's name.
C8_LinkFailureOverrides ==
    [][ ( /\ mode.at = "running"
          /\ Remote
          /\ task[1].pc = "symlink"
          /\ task[1].status # None
          /\ (~autoload \/ LinkExists(flat[1].link_path))
          /\ task'[1].pc = "finished" )
        => ( /\ ~task'[1].result.ok
             /\ task'[1].result.value.kind = "Link"
             /\ plugin(task'[1].result.value) = flat[1].name ) ]_vars

\* A fetched remote plugin reported as failed: the status was built, the
\* repository is there, the result is a Link error.
C8_Witness ==
    /\ Finished
    /\ Remote
    /\ task[1].status # None
    /\ task[1].status.kind \in {"Installed", "Unchanged", "Updated"}
    /\ Snapshot(flat[1]).repo
    /\ ~task[1].result.ok
    /\ task[1].result.value.kind = "Link"

\* C9 as stated: when a git process of update() ends in any other way than
\* an exit with code 0 (another code, a signal, a failed spawn), update()
\* returns an error.
C9_OnlyExitZeroSucceeds ==
    (Finished /\ ~task[1].clean) => ~task[1].result.ok

\* update() went past the second rev-parse: both revisions were read.
BothRevisionsRead ==
    /\ Finished
    /\ Remote
    /\ Len(task[1].calls) > 4
    /\ task[1].calls[4] = "rev-parse"

\* C10 as stated: when rev-parse yields the same revision before and after
\* a pull that exited with 0, update() returns Unchanged and git log is never
\* invoked.
C10_UnchangedReturned ==
    (BothRevisionsRead /\ task[1].clean
         /\ task[1].old_revision = task[1].new_revision) =>
        /\ task[1].result = Ok(Unchanged(flat[1].name, config(flat[1])))
        /\ \A i \in 1..Len(task[1].calls) : task[1].calls[i] # "log"

\* C10, amended: when rev-parse yields the same revision before and after
\* the pull, git log is never invoked and the status is Unchanged; update()
\* returns it when the symlink step succeeds and Err(Link) when it fails.
C10_UnchangedUnlessLinkFails ==
    (BothRevisionsRead /\ task[1].old_revision = task[1].new_revision) =>
        /\ \A i \in 1..Len(task[1].calls) : task[1].calls[i] # "log"
        /\ task[1].status = Unchanged(flat[1].name, config(flat[1]))
        /\ task[1].result =
             IF ~mode.before.link /\ autoload
             THEN Ok(task[1].status)
             ELSE LinkError(flat[1],
                            IF autoload THEN "File exists (os error 17)"
                            ELSE "No such file or directory (os error 2)")

\* Equal revisions around a pull that exited with 0, and Unchanged returned.
C10_Witness ==
    /\ BothRevisionsRead
    /\ task[1].clean
    /\ task[1].old_revision = task[1].new_revision
    /\ task[1].old_revision # None
    /\ task[1].result.ok
    /\ task[1].result.value.kind = "Unchanged"

\* C11 as stated: when rev-parse yields R1 before and R2 # R1 after a pull
\* that exited with 0, update() invokes git log R1..R2 and returns Updated
\* with the output of that git log as its log.
C11_UpdatedReturned ==
    (BothRevisionsRead /\ task[1].clean
         /\ task[1].old_revision # task[1].new_revision) =>
        /\ task[1].calls[5] = "log"
        /\ task[1].result =
             Ok(Updated(flat[1].name,
                        LogOutput(task[1].old_revision, task[1].new_revision),
                        config(flat[1])))

\* C11, amended: when rev-parse yields R1 before and R2 # R1 after the pull,
\* update() invokes git log R1..R2, R2 being HEAD after the pull; when every
\* git command exited with 0 the status is Updated with the output of that
\* git log as its log, and update() returns it when the symlink step
\* succeeds and Err(Link) when it fails.
C11_UpdatedUnlessLinkFails ==
    (BothRevisionsRead /\ task[1].old_revision # task[1].new_revision) =>
        /\ task[1].calls[5] = "log"
        /\ task[1].clean =>
             /\ task[1].new_revision = <<head[flat[1].repository_path]>>
             /\ task[1].status =
                  Updated(flat[1].name,
                          LogOutput(task[1].old_revision,
                                    <<head[flat[1].repository_path]>>),
                          config(flat[1]))
             /\ task[1].result =
                  IF ~mode.before.link /\ autoload
                  THEN Ok(task[1].status)
                  ELSE LinkError(flat[1],
                                 IF autoload THEN "File exists (os error 17)"
                                 ELSE "No such file or directory (os error 2)")

\* Two different revisions around a pull that exited with 0, and Updated
\* returned with a log.
C11_Witness ==
    /\ BothRevisionsRead
    /\ task[1].clean
    /\ task[1].old_revision # task[1].new_revision
    /\ task[1].result.ok
    /\ task[1].result.value.kind = "Updated"
    /\ task[1].result.value.log # <<>>

\* update() took the arm (false, true): the repository existed.
PullPath ==
    /\ Finished
    /\ Remote
    /\ Len(task[1].calls) >= 2
    /\ task[1].calls[2] = "rev-parse"

\* update() took the arm (false, false): the repository did not exist.
ClonePath ==
    /\ Finished
    /\ Remote
    /\ Len(task[1].calls) >= 2
    /\ task[1].calls[2] = "clone"

\* C12: on the pull path, when a rev-parse, the pull or the log could not be
\* spawned or exited with a code other than 0, update() returns a Pull error
\* carrying the plugin's name, and the failed call is the last one it made.
C12_PullErrors ==
    (PullPath /\ task[1].failed) =>
        /\ ~task[1].result.ok
        /\ task[1].result.value.kind = "Pull"
        /\ plugin(task[1].result.value) = flat[1].name
        /\ task[1].calls[Len(task[1].calls)] \in {"rev-parse", "pull", "log"}
        /\ task[1].status = None

\* The log failed after a pull that brought a new revision.
C12_Witness ==
    /\ PullPath
    /\ task[1].failed
    /\ task[1].calls = <<"metadata", "rev-parse", "pull", "rev-parse", "log">>
    /\ task[1].result.value.kind = "Pull"

\* C13: on the clone path, when git clone could not be spawned or exited
\* with a code other than 0, update() returns a Clone error carrying the
\* plugin's name, whose message is the spawn error or holds git's captured
\* stderr, and the symlink step is not run: link_path is as it was.
C13_CloneErrors ==
    (ClonePath /\ task[1].failed) =>
        /\ ~task[1].result.ok
        /\ task[1].result.value.kind = "Clone"
        /\ plugin(task[1].result.value) = flat[1].name
        /\ IF Len(task[1].result.value.message) = 4
           THEN task[1].result.value.message[4] = <<"stderr of git ", "clone">>
           ELSE task[1].result.value.message = SpawnMessage
        /\ task[1].calls = <<"metadata", "clone">>
        /\ Snapshot(flat[1]).link = mode.before.link
        /\ ~Snapshot(flat[1]).repo

\* git clone exited with 1 where a link could have been made.
C13_Witness ==
    /\ ClonePath
    /\ task[1].failed
    /\ autoload
    /\ ~mode.before.link
    /\ task[1].result.value.kind = "Clone"
    /\ task[1].result.value.message # SpawnMessage

\* The steps of update() that run git.
GitCalls == {"clone", "rev-parse", "pull", "log"}

\* C14: for a local plugin update() runs no git command; when
\* repository_path exists it runs the symlink step and returns Local once
\* the link is made (Err(Link) when it cannot be made); when repository_path
\* is missing it returns Err(Link) with the location in its message, and
\* runs neither a clone nor the symlink step.
C14_LocalNeverGit ==
    (Finished /\ ~Remote) =>
        /\ \A i \in DOMAIN task[1].calls : task[1].calls[i] \notin GitCalls
        /\ mode.before.repo =>
             /\ task[1].calls = <<"metadata", "symlink">>
             /\ task[1].status = Local(flat[1].name, config(flat[1]))
             /\ task[1].result.ok =>
                  /\ task[1].result = Ok(task[1].status)
                  /\ Snapshot(flat[1]).valid
             /\ ~task[1].result.ok => task[1].result.value.kind = "Link"
        /\ ~mode.before.repo =>
             /\ task[1].calls = <<"metadata">>
             /\ task[1].result =
                  Err(PluginError("Link", flat[1].name,
                                  <<"the path ", flat[1].repository_path,
                                    " is empty">>))
             /\ Snapshot(flat[1]).link = mode.before.link
             /\ ~Snapshot(flat[1]).repo

\* A local plugin whose path is missing, where a link could have been made.
C14_Witness ==
    /\ Finished
    /\ ~Remote
    /\ ~mode.before.repo
    /\ autoload
    /\ ~mode.before.link
    /\ ~task[1].result.ok

\* C28 as stated: when update() is about to return Ok, its last call was the
\* symlink step, which made the link from link_path (at which there was none
\* when the call began) to repository_path, and repository_path exists.
C28_LinkPostcondition ==
    (Finished /\ task[1].result.ok) =>
        /\ task[1].calls[Len(task[1].calls)] = "symlink"
        /\ ~mode.before.link
        /\ <<flat[1].link_path, flat[1].repository_path>> \in links
        /\ flat[1].repository_path \in dirs

\* C29: on the pull path the calls of update() are a beginning of metadata,
\* rev-parse, pull, rev-parse, log, symlink, with the log left out when the
\* two revisions are equal; once a git command could not be spawned or exited
\* with a code other than 0 no further call is made, so its call is the last
\* one and is not the symlink.
C29_PullPathOrder ==
    LET calls  == task[1].calls
        full   == <<"metadata", "rev-parse", "pull", "rev-parse", "log", "symlink">>
        nolog  == <<"metadata", "rev-parse", "pull", "rev-parse", "symlink">>
        Begins(a, b) == Len(a) <= Len(b) /\ a = SubSeq(b, 1, Len(a))
    IN  (/\ mode.at = "running"
         /\ Remote
         /\ mode.before.repo
         /\ calls # <<>>) =>
            /\ Begins(calls, full) \/ Begins(calls, nolog)
            /\ task[1].failed =>
                 /\ task[1].pc = "finished"
                 /\ ~task[1].result.ok
                 /\ calls[Len(calls)] \in GitCalls
                 /\ "symlink" \notin Range(calls)
            /\ (Len(calls) = 2 /\ task[1].failed) => "pull" \notin Range(calls)

\* The first rev-parse failed and update() ended there.
C29_Witness ==
    /\ Finished
    /\ Remote
    /\ mode.before.repo
    /\ task[1].failed
    /\ task[1].calls = <<"metadata", "rev-parse">>
    /\ ~task[1].result.ok

\* C34: when update() is about to return Ok, the Status is one of Installed,
\* Updated, Unchanged and Local and carries the plugin's name and the fragment
\* config() gives for the plugin; when it is about to return an error,
\* plugin() of the error is the plugin's name.
C34_ResultIdentity ==
    Finished =>
        LET r == task[1].result
        IN  IF r.ok
            THEN /\ r.value.kind \in {"Installed", "Updated", "Unchanged", "Local"}
                 /\ r.value.name = flat[1].name
                 /\ r.value.config = config(flat[1])
            ELSE /\ r.value.kind \in {"Clone", "Pull", "Link"}
                 /\ plugin(r.value) = flat[1].name

\* A second call on a plugin with configuration text failed in its pull,
\* after a first call that returned a status.
C34_Witness ==
    /\ Finished
    /\ flat[1].config # ""
    /\ history # <<>>
    /\ history[1].ok
    /\ ~task[1].result.ok
    /\ task[1].result.value.kind = "Pull"
    /\ plugin(task[1].result.value) = flat[1].name

\* The call before returned Installed, create_dirs has run since and the
\* origin received no commit: the update() of a second run of the program,
\* about to return after git commands that all exited with 0.
SecondRun ==
    /\ Finished
    /\ Remote
    /\ history # <<>>
    /\ history[1].ok
    /\ history[1].kind = "Installed"
    /\ mode.touched = {"autoload"}
    /\ task[1].clean

\* C37 as stated: in the second run of the program the plugin installed by
\* the first run finds no link at link_path when its update() starts and
\* returns Unchanged.
C37_SecondRunUnchanged ==
    SecondRun =>
        /\ ~mode.before.link
        /\ task[1].result = Ok(Unchanged(flat[1].name, config(flat[1])))

(* ------------------------- the flattened plugins ---------------------- *)

\* C15 as stated: a location is classified remote exactly when it starts with
\* https://, http://, git:// or git@, and local otherwise.
C15_RemotePrefixes ==
    mode = "flattened" =>
        \A k \in 1..Len(flat) :
            ~flat[k].is_local <=>
                \E prefix \in {"https://", "http://", "git://", "git@"} :
                    StartsWith(flat[k].location, prefix)

\* C16 as stated: repository_path is data directory/name when the location
\* starts with a remote prefix and the location itself otherwise; link_path
\* is autoload plugins directory/name in both cases.
C16_Paths ==
    mode = "flattened" =>
        \A k \in 1..Len(flat) :
            /\ flat[k].repository_path =
                 IF \E prefix \in {"https://", "http://", "git://", "git@"} :
                        StartsWith(flat[k].location, prefix)
                 THEN Join(DataDir, flat[k].name)
                 ELSE PathFrom(flat[k].location)
            /\ flat[k].link_path = Join(AutoloadPluginsDir, flat[k].name)

\* C17: every node that is not disabled and has no disabled ancestor yields
\* one Plugin, named as the node; its parent is the name of the node that
\* encloses it (None at the top level) and has_children says whether the
\* node's children mapping is non-empty, disabled children included.
C17_FlattenShape ==
    mode = "flattened" =>
        /\ \A i \in Nodes(tree) :
             ~Silenced(tree, i) =>
                 Cardinality({k \in 1..Len(flat) : flat[k].node = i}) = 1
        /\ \A k \in 1..Len(flat) :
             LET i == flat[k].node
             IN  /\ flat[k].name = tree.name[i]
                 /\ flat[k].parent =
                      IF tree.parent[i] = 0 THEN None
                      ELSE Some(tree.name[tree.parent[i]])
                 /\ flat[k].has_children <=> (\E j \in Nodes(tree) : tree.parent[j] = i)

\* A nested plugin, and a plugin all of whose children are disabled.
C17_Witness ==
    /\ mode = "flattened"
    /\ \E k \in 1..Len(flat) : flat[k].parent # None
    /\ \E k \in 1..Len(flat) :
         /\ flat[k].has_children
         /\ \A j \in Nodes(tree) : tree.parent[j] = flat[k].node => tree.disabled[j]

\* The pieces only the catch placeholder and only the hook wrapper have.
HasPlaceholder(fragment) ==
    \E i \in DOMAIN fragment :
        fragment[i] \in {" ] catch %[\n    provide-module ",
                         " ] catch %[\n        provide-module "}

IsWrapped(fragment, parent) ==
    /\ Len(fragment) >= 3
    /\ fragment[1] = "hook -once global ModuleLoaded "
    /\ fragment[2] = parent
    /\ fragment[Len(fragment)] = "\n]\n"

\* C18: the fragment of a plugin is the same for two plugins that agree on
\* name, config text, parent and has_children; with no parent and no
\* children it is try %[ require-module NAME ], newline, the text, newline;
\* it holds the catch placeholder exactly when has_children is true; it is
\* wrapped in hook -once global ModuleLoaded PARENT %[ ... ] exactly when the
\* plugin has a parent, PARENT being the parent's name.
C18_FragmentSelection ==
    mode = "rendered" =>
        /\ Len(kak) = Len(flat)
        /\ \A k, l \in 1..Len(flat) :
             ( /\ flat[k].name = flat[l].name
               /\ flat[k].config = flat[l].config
               /\ flat[k].parent = flat[l].parent
               /\ flat[k].has_children = flat[l].has_children ) => kak[k] = kak[l]
        /\ \A k \in 1..Len(flat) :
             /\ (flat[k].parent = None /\ ~flat[k].has_children) =>
                    kak[k] = << "try %[ require-module ", flat[k].name, " ]\n",
                                flat[k].config, "\n" >>
             /\ HasPlaceholder(kak[k]) <=> flat[k].has_children
             /\ (\E i \in DOMAIN kak[k] : kak[k][i] = "hook -once global ModuleLoaded ")
                    <=> flat[k].parent # None
             /\ flat[k].parent # None => IsWrapped(kak[k], flat[k].parent[1])
             /\ \E i \in DOMAIN kak[k] :
                  /\ i > 1
                  /\ kak[k][i] = flat[k].name
                  /\ kak[k][i - 1] \in {"try %[ require-module ",
                                        " %[\n    try %[ require-module "}

\* A plugin with a parent and children, one with children only and one with
\* a parent only were rendered for one tree.
C18_Witness ==
    /\ mode = "rendered"
    /\ \E k \in 1..Len(flat) : flat[k].parent # None /\ flat[k].has_children
    /\ \E k \in 1..Len(flat) : flat[k].parent = None /\ flat[k].has_children
    /\ \E k \in 1..Len(flat) : flat[k].parent # None /\ ~flat[k].has_children

C36_HookTargetsActive ==
    mode = "flattened" =>
        \A k \in 1..Len(flat) :
            flat[k].parent # None =>
                \E j \in 1..Len(flat) :
                    /\ flat[j].node = tree.parent[flat[k].node]
                    /\ flat[j].name = flat[k].parent[1]
                    /\ flat[j].has_children

\* A chain of three enabled nodes: the second is a child and a parent.
C36_Witness ==
    /\ mode = "flattened"
    /\ Len(flat) = 3
    /\ tree.parent = <<0, 1, 2>>
    /\ flat[2].parent # None /\ flat[2].has_children
    /\ flat[3].parent = Some(flat[2].name)


\* The entries of the changes list for the results of the threads ts, in the
\* order of ts: one for each Updated status, none for another result.
RECURSIVE UpdatedEntries(_)
UpdatedEntries(ts) ==
    IF ts = <<>> THEN <<>>
    ELSE LET r == task[Head(ts)].result
         IN  (IF r.ok /\ r.value.kind = "Updated"
              THEN <<[name |-> r.value.name, log |-> r.value.log]>>
              ELSE <<>>)
                 \o UpdatedEntries(Tail(ts))

\* The received results but the last.
AllButLast(ts) == SubSeq(ts, 1, Len(ts) - 1)

\* The results the loop has gone through to the end of the match arm: all
\* the received ones, but the last when its kak.write failed.
Handled == IF mainpc = "write_failed" THEN AllButLast(received) ELSE received

\* C38 as stated: the changes list has one entry per received Updated
\* status, in the order of receipt, and none for another result.
C38_EntryPerReceivedUpdated ==
    mode = "manage_plugins" => changes = UpdatedEntries(received)

\* C38: the changes list has one entry, the name and the log, per received
\* Updated status whose fragment was written, in the order of receipt, and
\* none for an Installed, Unchanged, Local or Deleted status or an error; an
\* Updated status whose write fails is received and gets no entry.
C38_EntryPerWrittenUpdated ==
    mode = "manage_plugins" =>
        /\ IF mainpc = "returned" /\ ret = WriteError
           THEN \/ changes = UpdatedEntries(received)
                \/ /\ received # <<>>
                   /\ Wrote(received[Len(received)])
                   /\ changes = UpdatedEntries(AllButLast(received))
           ELSE changes = UpdatedEntries(Handled)
        /\ Len(changes) = Cardinality(StatusLines({"updated"}))

\* A returned run that received the Updated status of the second plugin
\* before the first's: the list has the second's entry first.
C38_Witness ==
    /\ mode = "manage_plugins"
    /\ ReturnedWritten
    /\ Len(changes) = 2
    /\ received = <<2, 1>>
    /\ changes[1].name = flat[2].name
    /\ changes[2].name = flat[1].name

====
